---------------------------- MODULE Spec2Model ----------------------------
(***************************************************************************)
(* A model of the automaton engine of jsflap (src/src/utils/engine.ts):    *)
(* validation of the drawn graph as DFA / NFA / PDA / Turing Machine,      *)
(* compilation to a machine, the interactive simulation (simulate,         *)
(* advance, resetSimulation, endSimulation) and the batch evaluation       *)
(* (eval, _faEval).                                                        *)
(*                                                                         *)
(* Representation.                                                         *)
(*  - A JavaScript string is a sequence of one-character strings:          *)
(*    "a" is <<"a">>, "a b R" is <<"a", " ", "b", " ", "R">>, "" is <<>>.  *)
(*  - A graph node is a record [id, label, start, end]; a graph transition *)
(*    is [from, to, conditions] with from/to node ids and conditions a     *)
(*    sequence of strings.  layers[1] is `nodes`, layers[0] `transitions`. *)
(*  - A compiled state is addressed by its index in the machine's `states` *)
(*    table (one entry per node, in node order); object references of the  *)
(*    code (transition.to, machine.initial, timelines[i][0]) are indices.  *)
(*  - An optional alphabet (alphabet?: Set<string>) is {} when undefined   *)
(*    and {S} when the set S is supplied.                                  *)
(***************************************************************************)
EXTENDS Integers, Sequences, FiniteSets, TLC

VARIABLES
    nodes,          \* layers[1]: the graph's nodes, in insertion order
    transitions,    \* layers[0]: the graph's transitions, in insertion order
    machine,        \* Engine._machine (NoMachine models null)
    nodeMap,        \* Engine._nodeMap: state index -> node id (<<>> when cleared)
    timelines,      \* Engine._timelines: sequence of <<state, cursor>>
    simStates,      \* the state objects the entries of _timelines point into
    input,          \* Engine._input
    stack,          \* Engine._stack
    tape,           \* Engine._tape
    lastCall,       \* the last call made on the engine: its name and arguments
    outcome,        \* how that call ended: "ok", a thrown error or signal, a verdict
    evalPc,         \* position of a running eval call: "idle", "scan", "done"
    evalInput,      \* _faEval: inputString
    evalTimelines,  \* _faEval: the local `timelines`
    evalI,          \* _faEval: the for-loop index i
    evalResult,     \* the verdict eval returns: "none", "true", "false"
    simulating,     \* DiagramMaker: simulating
    simState,       \* DiagramMaker: simState ("null" models null)
    ffPending       \* DiagramMaker: fastForward callbacks waiting on setTimeout

engineVars == <<machine, nodeMap, timelines, simStates, input, stack, tape>>
evalVars == <<evalPc, evalInput, evalTimelines, evalI, evalResult>>
graphVars == <<nodes, transitions>>
hostVars == <<simulating, simState, ffPending>>
vars == <<nodes, transitions, machine, nodeMap, timelines, simStates, input,
          stack, tape, lastCall, outcome, evalPc, evalInput, evalTimelines, evalI, evalResult,
          simulating, simState, ffPending>>

---------------------------------------------------------------------------
(* Bounds of the model.                                                    *)

\* longest input string handed to simulate / eval
MaxLen == 2
\* longest timeline list a step may produce (the lists of the code are unbounded)
MaxTimelines == 6
\* most nodes of a graph drawn to exercise the checks on the nodes' marks
MaxNodes == 3
\* most transitions of a graph drawn to exercise the checks on the conditions
MaxTransitions == 2
\* most nodes and most transitions of a graph that is being edited
MaxEditNodes == 2
MaxEditTransitions == 2
\* most fastForward callbacks waiting at once (one chain per press of Fast Forward)
MaxPending == 2

---------------------------------------------------------------------------
(* Strings and arrays.                                                     *)

EPSILON == "ε"

\* the one-character string made of c
Str(c) == <<c>>

\* Array.prototype.includes
Includes(seq, x) == \E k \in 1..Len(seq) : seq[k] = x

\* the elements of an array, as a set
Range(seq) == {seq[k] : k \in 1..Len(seq)}

\* Array.prototype.splice(i, 1) with a 0-based i
Splice(seq, i) == [k \in 1..(Len(seq) - 1) |-> IF k <= i THEN seq[k] ELSE seq[k + 1]]

\* arr[i] = v with a 0-based i < arr.length
SetAt(seq, i, v) == [seq EXCEPT ![i + 1] = v]

RECURSIVE Flatten(_)
Flatten(seqs) == IF seqs = <<>> THEN <<>> ELSE Head(seqs) \o Flatten(Tail(seqs))

\* String.prototype.split(' '): the fields between single spaces
RECURSIVE SplitFrom(_, _, _)
SplitFrom(s, k, cur) ==
    IF k > Len(s) THEN <<cur>>
    ELSE IF s[k] = " " THEN <<cur>> \o SplitFrom(s, k + 1, <<>>)
    ELSE SplitFrom(s, k + 1, Append(cur, s[k]))

Split(s) == SplitFrom(s, 1, <<>>)

\* a destructured field of a split: the string, or Undefined when there is none
Undefined == <<"undefined", "undefined">>
Field(fields, k) == IF k <= Len(fields) THEN fields[k] ELSE Undefined

\* /. . [NPp] ./.test(condition): an unanchored match
MatchesPDA(s) ==
    \E k \in 1..(Len(s) - 6) :
        /\ s[k + 1] = " "
        /\ s[k + 3] = " "
        /\ s[k + 4] \in {"N", "P", "p"}
        /\ s[k + 5] = " "

\* /. . [NRL]/.test(condition): an unanchored match
MatchesTM(s) ==
    \E k \in 1..(Len(s) - 4) :
        /\ s[k + 1] = " "
        /\ s[k + 3] = " "
        /\ s[k + 4] \in {"N", "R", "L"}

PUSH == <<"P", "u", "s", "h">>
POP == <<"P", "o", "p">>

\* the first result of a sequence of check results that is not "ok"
RECURSIVE FirstError(_)
FirstError(results) ==
    IF results = <<>> THEN "ok"
    ELSE IF Head(results) # "ok" THEN Head(results)
    ELSE FirstError(Tail(results))

---------------------------------------------------------------------------
(* The graph.                                                              *)

Node(id, label, start, end) == [id |-> id, label |-> label, start |-> start, end |-> end]
Transition(from, to, conditions) == [from |-> from, to |-> to, conditions |-> conditions]

\* the keys of the outgoingTransitions map, in insertion order
RECURSIVE FromOrder(_, _)
FromOrder(ts, seen) ==
    IF ts = <<>> THEN <<>>
    ELSE IF Head(ts).from \in seen THEN FromOrder(Tail(ts), seen)
    ELSE <<Head(ts).from>> \o FromOrder(Tail(ts), seen \cup {Head(ts).from})

\* outgoingTransitions.get(node)
Outgoing(ts, id) == SelectSeq(ts, LAMBDA t : t.from = id)

\* every condition of a list of transitions, in iteration order
AllConditions(ts) == Flatten([k \in 1..Len(ts) |-> ts[k].conditions])

StartNodes(ns) == SelectSeq(ns, LAMBDA n : n.start)


---------------------------------------------------------------------------
(* Engine.validate.  The result is "ok" or the kind of the error thrown    *)
(* first, in the order the code makes its checks.                          *)

\* the set a supplied alphabet holds (alphabet ? new Set(alphabet) : new Set())
Supplied(opt) == IF opt = {} THEN {} ELSE CHOOSE S \in opt : TRUE

\* the coverage loop without its 'more than one outgoing transition' check
RECURSIVE CoverFANoDuplicate(_, _, _, _, _, _)
CoverFANoDuplicate(as, requireAllTransitions, alpha, symbols, k, searching) ==
    IF k > Len(symbols)
    THEN IF (as = "DFA" \/ requireAllTransitions) /\ searching # {}
         THEN "MissingTransitions" ELSE "ok"
    ELSE LET symbol == symbols[k] IN
         IF symbol \notin alpha /\ as = "NFA" /\ symbol # Str(EPSILON)
         THEN "ConditionError"
         ELSE CoverFANoDuplicate(as, requireAllTransitions, alpha, symbols, k + 1,
                                 searching \ {symbol})

\* the coverage loop making the DFA's checks whatever the type and the options
RECURSIVE CoverFAAlways(_, _, _, _, _, _)
CoverFAAlways(as, requireAllTransitions, alpha, symbols, k, searching) ==
    IF k > Len(symbols)
    THEN IF searching # {} THEN "MissingTransitions" ELSE "ok"
    ELSE LET symbol == symbols[k] IN
         IF symbol \notin alpha /\ as = "NFA" /\ symbol # Str(EPSILON)
         THEN "ConditionError"
         ELSE IF symbol \notin searching
         THEN "DuplicateTransition"
         ELSE CoverFAAlways(as, requireAllTransitions, alpha, symbols, k + 1,
                            searching \ {symbol})

\* DFA/NFA: one node's pass of the coverage loop over its outgoing conditions
RECURSIVE CoverFA(_, _, _, _, _, _)
CoverFA(as, requireAllTransitions, alpha, symbols, k, searching) ==
    IF k > Len(symbols)
    THEN IF (as = "DFA" \/ requireAllTransitions) /\ searching # {}
         THEN "MissingTransitions" ELSE "ok"
    ELSE LET symbol == symbols[k] IN
         IF symbol \notin alpha /\ as = "NFA" /\ symbol # Str(EPSILON)
         THEN "ConditionError"
         ELSE IF (as = "DFA" \/ requireAllTransitions) /\ symbol \notin searching
         THEN "DuplicateTransition"
         ELSE CoverFA(as, requireAllTransitions, alpha, symbols, k + 1, searching \ {symbol})

\* DFA: the two labels the 'both marked as initial states' error names, those of
\* initialNode (the first start node) and of node (the second one)
BothInitial(ns) == <<StartNodes(ns)[1].label, StartNodes(ns)[2].label>>

\* the DFA / NFA case without the check for a second start node
ValidateFAAnyStarts(as, alphabet, requireAllTransitions, ns, ts) ==
    LET starts == StartNodes(ns)
        conds == AllConditions(ts)
        alpha == IF alphabet # {} THEN Supplied(alphabet) ELSE Range(conds)
        order == FromOrder(ts, {})
    IN  IF Len(starts) = 0 THEN "NoInitial"
        ELSE IF \E k \in 1..Len(conds) : Len(conds[k]) # 1 THEN "SymbolError"
        ELSE FirstError([n \in 1..Len(order) |->
                CoverFA(as, requireAllTransitions, alpha,
                        AllConditions(Outgoing(ts, order[n])), 1, alpha)])

ValidateFA(as, alphabet, requireAllTransitions, ns, ts) ==
    LET starts == StartNodes(ns)
        conds == AllConditions(ts)
        alpha == IF alphabet # {} THEN Supplied(alphabet) ELSE Range(conds)
        order == FromOrder(ts, {})
    IN  IF as = "DFA" /\ Len(starts) >= 2 THEN "MultipleInitial"
        ELSE IF Len(starts) = 0 THEN "NoInitial"
        ELSE IF \E k \in 1..Len(conds) : Len(conds[k]) # 1 THEN "SymbolError"
        ELSE FirstError([n \in 1..Len(order) |->
                CoverFA(as, requireAllTransitions, alpha,
                        AllConditions(Outgoing(ts, order[n])), 1, alpha)])

\* the shape checks of a PDA condition without the 'must be one character
\* long' ones
ShapePDAAnyLength(condition) ==
    IF ~MatchesPDA(condition) THEN "ConditionError"
    ELSE LET f == Split(condition) IN
         IF Field(f, 3) # PUSH /\ Field(f, 3) # POP THEN "StackActionError"
         ELSE "ok"

\* PDA: the shape checks made on one condition
ShapePDA(condition) ==
    IF ~MatchesPDA(condition) THEN "ConditionError"
    ELSE LET f == Split(condition) IN
         IF Len(Field(f, 1)) # 1 \/ Len(Field(f, 2)) # 1 \/ Len(Field(f, 4)) # 1
         THEN "SymbolError"
         ELSE IF Field(f, 3) # PUSH /\ Field(f, 3) # POP THEN "StackActionError"
         ELSE "ok"

\* PDA: one node's pass of the coverage loop
RECURSIVE CoverPDA(_, _, _, _, _, _)
CoverPDA(requireAllTransitions, alpha, stackAlpha, conds, k, symbolSearching) ==
    IF k > Len(conds)
    THEN IF requireAllTransitions /\ symbolSearching # {}
         THEN "MissingTransitions" ELSE "ok"
    ELSE LET f == Split(conds[k]) IN
         IF Field(f, 1) \notin alpha THEN "ConditionError"
         ELSE IF Field(f, 2) \notin stackAlpha THEN "ConditionError"
         ELSE IF Field(f, 4) \notin stackAlpha THEN "ConditionError"
         ELSE CoverPDA(requireAllTransitions, alpha, stackAlpha, conds, k + 1,
                       symbolSearching \ {Field(f, 1)})

ValidatePDA(alphabet, stackAlphabet, requireAllTransitions, ns, ts) ==
    LET conds == AllConditions(ts)
        alpha == IF alphabet # {} THEN Supplied(alphabet)
                 ELSE {Field(Split(conds[k]), 1) : k \in 1..Len(conds)}
        stackAlpha == IF stackAlphabet # {} THEN Supplied(stackAlphabet)
                      ELSE {Field(Split(conds[k]), 2) : k \in 1..Len(conds)}
                           \cup {Field(Split(conds[k]), 4) : k \in 1..Len(conds)}
        order == FromOrder(ts, {})
        shapes == FirstError([k \in 1..Len(conds) |-> ShapePDA(conds[k])])
    IN  IF Len(StartNodes(ns)) = 0 THEN "NoInitial"
        ELSE IF shapes # "ok" THEN shapes
        ELSE FirstError([n \in 1..Len(order) |->
                CoverPDA(requireAllTransitions, alpha, stackAlpha,
                         AllConditions(Outgoing(ts, order[n])), 1, alpha)])

\* the loop over the nodes without its 'Multiple accept states.' branch
RECURSIVE MarksTMManyAccepts(_, _, _, _, _)
MarksTMManyAccepts(ns, k, hasInitial, hasAccept, hasReject) ==
    IF k > Len(ns)
    THEN IF ~hasInitial THEN "NoInitial"
         ELSE IF ~hasAccept THEN "NoAccept"
         ELSE IF ~hasReject THEN "NoReject"
         ELSE "ok"
    ELSE LET node == ns[k] IN
         IF node.start /\ hasInitial THEN "MultipleStart"
         ELSE IF node.end /\ node.label = "reject" /\ hasReject THEN "MultipleReject"
         ELSE IF node.end /\ node.label \notin {"accept", "reject"} THEN "BadEndLabel"
         ELSE MarksTMManyAccepts(ns, k + 1, hasInitial \/ node.start,
                                 hasAccept \/ (node.end /\ node.label = "accept"),
                                 hasReject \/ (node.end /\ node.label = "reject"))

\* Turing Machine: the loop over the nodes (start / accept / reject marks)
RECURSIVE MarksTM(_, _, _, _, _)
MarksTM(ns, k, hasInitial, hasAccept, hasReject) ==
    IF k > Len(ns)
    THEN IF ~hasInitial THEN "NoInitial"
         ELSE IF ~hasAccept THEN "NoAccept"
         ELSE IF ~hasReject THEN "NoReject"
         ELSE "ok"
    ELSE LET node == ns[k] IN
         IF node.start /\ hasInitial THEN "MultipleStart"
         ELSE IF node.end /\ node.label = "accept" /\ hasAccept THEN "MultipleAccept"
         ELSE IF node.end /\ node.label = "reject" /\ hasReject THEN "MultipleReject"
         ELSE IF node.end /\ node.label \notin {"accept", "reject"} THEN "BadEndLabel"
         ELSE MarksTM(ns, k + 1, hasInitial \/ node.start,
                      hasAccept \/ (node.end /\ node.label = "accept"),
                      hasReject \/ (node.end /\ node.label = "reject"))

\* Turing Machine: the shape checks made on one condition
ShapeTM(condition) ==
    IF ~MatchesTM(condition) THEN "ConditionError"
    ELSE LET f == Split(condition) IN
         IF Len(Field(f, 1)) # 1 \/ Len(Field(f, 2)) # 1 THEN "SymbolError"
         ELSE IF Field(f, 3) \notin {Str("N"), Str("R"), Str("L")} THEN "MovementError"
         ELSE "ok"

\* Turing Machine: one node's pass of the coverage loop
RECURSIVE CoverTM(_, _, _, _, _)
CoverTM(requireAllTransitions, tapeAlpha, conds, k, symbolSearching) ==
    IF k > Len(conds)
    THEN IF requireAllTransitions /\ symbolSearching # {}
         THEN "MissingTransitions" ELSE "ok"
    ELSE LET f == Split(conds[k]) IN
         IF Field(f, 1) \notin tapeAlpha THEN "ConditionError"
         ELSE IF Field(f, 2) \notin tapeAlpha THEN "ConditionError"
         ELSE CoverTM(requireAllTransitions, tapeAlpha, conds, k + 1,
                      symbolSearching \ {Field(f, 1)})

ValidateTM(alphabet, tapeAlphabet, requireAllTransitions, ns, ts) ==
    LET conds == AllConditions(ts)
        tapeAlpha == IF tapeAlphabet # {} THEN Supplied(tapeAlphabet)
                     ELSE {Field(Split(conds[k]), 1) : k \in 1..Len(conds)}
                          \cup {Field(Split(conds[k]), 2) : k \in 1..Len(conds)}
        order == FromOrder(ts, {})
        marks == MarksTM(ns, 1, FALSE, FALSE, FALSE)
        shapes == FirstError([k \in 1..Len(conds) |-> ShapeTM(conds[k])])
    IN  IF marks # "ok" THEN marks
        ELSE IF shapes # "ok" THEN shapes
        ELSE FirstError([n \in 1..Len(order) |->
                CoverTM(requireAllTransitions, tapeAlpha,
                        AllConditions(Outgoing(ts, order[n])), 1, tapeAlpha)])

\* validate(as, {alphabet, stackAlphabet, tapeAlphabet}, {requireAllTransitions})
Validate(as, alphabets, options, ns, ts) ==
    CASE as \in {"DFA", "NFA"} ->
            ValidateFA(as, alphabets.alphabet, options.requireAllTransitions, ns, ts)
      [] as = "PDA" ->
            ValidatePDA(alphabets.alphabet, alphabets.stackAlphabet,
                        options.requireAllTransitions, ns, ts)
      [] as = "Turing Machine" ->
            ValidateTM(alphabets.alphabet, alphabets.tapeAlphabet,
                       options.requireAllTransitions, ns, ts)

---------------------------------------------------------------------------
(* Compilation.  A machine is [type, initial, final, alphabet,             *)
(* stackAlphabet, tapeAlphabet, states]; initial and final are sequences   *)
(* of state indices (a DFA's and a Turing machine's single initial state   *)
(* is a sequence of one).  A compile step returns [err, machine].          *)

NoMachine ==
    [type |-> "none", initial |-> <<>>, final |-> <<>>, alphabet |-> {},
     stackAlphabet |-> {}, tapeAlphabet |-> {}, states |-> <<>>]

Failed(err) == [err |-> err, machine |-> NoMachine]

\* nodeMap.get(node): the index of the state made for the node, 0 when there is none
StateOf(ns, id) ==
    IF \E i \in 1..Len(ns) : ns[i].id = id
    THEN CHOOSE i \in 1..Len(ns) : ns[i].id = id
    ELSE 0

\* the indices of the nodes marked start / end / accept / reject, in node order
NodeIndices(ns) == [k \in 1..Len(ns) |-> k]
StartIndices(ns) == SelectSeq(NodeIndices(ns), LAMBDA k : ns[k].start)
EndIndices(ns) == SelectSeq(NodeIndices(ns), LAMBDA k : ns[k].end)
AcceptIndices(ns) == SelectSeq(NodeIndices(ns), LAMBDA k : ns[k].end /\ ns[k].label = "accept")
RejectIndices(ns) == SelectSeq(NodeIndices(ns), LAMBDA k : ns[k].end /\ ns[k].label = "reject")

\* the last element of a non-empty sequence (a variable overwritten in a loop)
Last(seq) == seq[Len(seq)]

\* the typed conditions of a PDA and of a Turing machine
PDACondition(c) ==
    LET f == Split(c) IN
    [symbol |-> Field(f, 1), readStackSymbol |-> Field(f, 2),
     action |-> Field(f, 3), actionStackSymbol |-> Field(f, 4)]

TMCondition(c) ==
    LET f == Split(c) IN
    [readSymbol |-> Field(f, 1), writeSymbol |-> Field(f, 2), movement |-> Field(f, 3)]

\* the condition a machine of the given type stores: the string itself for a
\* DFA / NFA, the parsed fields for a PDA / Turing machine
CompiledCondition(type, c) ==
    CASE type \in {"DFA", "NFA"} -> c
      [] type = "PDA" -> PDACondition(c)
      [] type = "Turing Machine" -> TMCondition(c)

\* the state objects with each state's transitions in the reverse of the order
\* of the graph's transition list
CompiledStatesReversed(ns, ts, type) ==
    [i \in 1..Len(ns) |->
        LET out == Outgoing(ts, ns[i].id) IN
        [label |-> ns[i].label, initial |-> ns[i].start, final |-> ns[i].end,
         transitions |->
            [k \in 1..Len(out) |->
                LET t == out[Len(out) + 1 - k] IN
                [conditions |-> [c \in 1..Len(t.conditions) |->
                                    CompiledCondition(type, t.conditions[c])],
                 from |-> i,
                 to |-> StateOf(ns, t.to)]]]]

\* the state objects: one per node, each with the transitions leaving its node
\* in the order of the graph's transition list
CompiledStates(ns, ts, type) ==
    [i \in 1..Len(ns) |->
        LET out == Outgoing(ts, ns[i].id) IN
        [label |-> ns[i].label, initial |-> ns[i].start, final |-> ns[i].end,
         transitions |->
            [k \in 1..Len(out) |->
                [conditions |-> [c \in 1..Len(out[k].conditions) |->
                                    CompiledCondition(type, out[k].conditions[c])],
                 from |-> i,
                 to |-> StateOf(ns, out[k].to)]]]]

\* from.transitions.push on a transition whose source node has no state
DanglingFrom(ns, ts) == \E k \in 1..Len(ts) : StateOf(ns, ts[k].from) = 0

\* _compileDFA inferring the alphabet from the first condition only
_compileDFAFirstSymbol(alpha, ns, ts) ==
    LET starts == StartIndices(ns)
        conds == AllConditions(ts)
    IN  IF starts = <<>> THEN Failed("MissingInitial")
        ELSE IF DanglingFrom(ns, ts) THEN Failed("TypeError")
        ELSE IF alpha # {} /\ \E k \in 1..Len(conds) : conds[k] \notin Supplied(alpha)
        THEN Failed("UnrecognizedSymbol")
        ELSE [err |-> "ok",
              machine |->
                [type |-> "DFA", initial |-> <<Last(starts)>>,
                 final |-> EndIndices(ns),
                 alphabet |-> IF alpha # {} THEN Supplied(alpha)
                              ELSE Range(SubSeq(conds, 1, 1)),
                 stackAlphabet |-> {}, tapeAlphabet |-> {},
                 states |-> CompiledStates(ns, ts, "DFA")]]

_compileDFA(alpha, ns, ts) ==
    LET starts == StartIndices(ns)
        conds == AllConditions(ts)
    IN  IF starts = <<>> THEN Failed("MissingInitial")
        ELSE IF DanglingFrom(ns, ts) THEN Failed("TypeError")
        ELSE IF alpha # {} /\ \E k \in 1..Len(conds) : conds[k] \notin Supplied(alpha)
        THEN Failed("UnrecognizedSymbol")
        ELSE [err |-> "ok",
              machine |->
                [type |-> "DFA", initial |-> <<Last(starts)>>,
                 final |-> EndIndices(ns),
                 alphabet |-> IF alpha # {} THEN Supplied(alpha) ELSE Range(conds),
                 stackAlphabet |-> {}, tapeAlphabet |-> {},
                 states |-> CompiledStates(ns, ts, "DFA")]]

\* _compileNFA refusing an epsilon condition whenever an alphabet is supplied
_compileNFANoEpsilon(alpha, ns, ts) ==
    LET conds == AllConditions(ts)
    IN  IF DanglingFrom(ns, ts) THEN Failed("TypeError")
        ELSE IF alpha # {} /\ \E k \in 1..Len(conds) :
                    conds[k] \notin Supplied(alpha) \ {Str(EPSILON)}
        THEN Failed("UnrecognizedSymbol")
        ELSE [err |-> "ok",
              machine |->
                [type |-> "NFA", initial |-> StartIndices(ns),
                 final |-> EndIndices(ns),
                 alphabet |-> IF alpha # {} THEN Supplied(alpha) ELSE Range(conds),
                 stackAlphabet |-> {}, tapeAlphabet |-> {},
                 states |-> CompiledStates(ns, ts, "NFA")]]

_compileNFA(alpha, ns, ts) ==
    LET conds == AllConditions(ts)
    IN  IF DanglingFrom(ns, ts) THEN Failed("TypeError")
        ELSE IF alpha # {} /\ \E k \in 1..Len(conds) : conds[k] \notin Supplied(alpha)
        THEN Failed("UnrecognizedSymbol")
        ELSE [err |-> "ok",
              machine |->
                [type |-> "NFA", initial |-> StartIndices(ns),
                 final |-> EndIndices(ns),
                 alphabet |-> IF alpha # {} THEN Supplied(alpha) ELSE Range(conds),
                 stackAlphabet |-> {}, tapeAlphabet |-> {},
                 states |-> CompiledStates(ns, ts, "NFA")]]

_compilePDA(alpha, stackAlpha, ns, ts) ==
    LET starts == StartIndices(ns)
        conds == AllConditions(ts)
        parsed == [k \in 1..Len(conds) |-> PDACondition(conds[k])]
    IN  IF starts = <<>> THEN Failed("MissingInitial")
        ELSE IF DanglingFrom(ns, ts) THEN Failed("TypeError")
        ELSE IF \E k \in 1..Len(parsed) :
                    \/ alpha # {} /\ parsed[k].symbol \notin Supplied(alpha)
                    \/ stackAlpha # {} /\ parsed[k].readStackSymbol \notin Supplied(stackAlpha)
                    \/ stackAlpha # {} /\ parsed[k].actionStackSymbol \notin Supplied(stackAlpha)
        THEN Failed("SymbolError")
        ELSE IF \E k \in 1..Len(parsed) : parsed[k].action \notin {PUSH, POP}
        THEN Failed("StackActionError")
        ELSE [err |-> "ok",
              machine |->
                [type |-> "PDA", initial |-> starts,
                 final |-> EndIndices(ns),
                 alphabet |-> IF alpha # {} THEN Supplied(alpha)
                              ELSE {parsed[k].symbol : k \in 1..Len(parsed)},
                 stackAlphabet |-> IF stackAlpha # {} THEN Supplied(stackAlpha)
                                   ELSE {parsed[k].readStackSymbol : k \in 1..Len(parsed)}
                                        \cup {parsed[k].actionStackSymbol : k \in 1..Len(parsed)},
                 tapeAlphabet |-> {},
                 states |-> CompiledStates(ns, ts, "PDA")]]

_compileTuringMachine(alpha, tapeAlpha, ns, ts) ==
    LET starts == StartIndices(ns)
        accepts == AcceptIndices(ns)
        rejects == RejectIndices(ns)
        conds == AllConditions(ts)
        parsed == [k \in 1..Len(conds) |-> TMCondition(conds[k])]
    IN  IF starts = <<>> THEN Failed("MissingInitial")
        ELSE IF accepts = <<>> THEN Failed("MissingAccept")
        ELSE IF rejects = <<>> THEN Failed("MissingReject")
        ELSE IF DanglingFrom(ns, ts) THEN Failed("TypeError")
        ELSE IF \E k \in 1..Len(parsed) :
                    \/ tapeAlpha # {} /\ parsed[k].readSymbol \notin Supplied(tapeAlpha)
                    \/ tapeAlpha # {} /\ parsed[k].writeSymbol \notin Supplied(tapeAlpha)
        THEN Failed("SymbolError")
        ELSE IF \E k \in 1..Len(parsed) : parsed[k].movement \notin {Str("N"), Str("L"), Str("R")}
        THEN Failed("MovementError")
        ELSE [err |-> "ok",
              machine |->
                [type |-> "Turing Machine", initial |-> <<Last(starts)>>,
                 final |-> <<Last(accepts), Last(rejects)>>,
                 alphabet |-> IF alpha # {} THEN Supplied(alpha)
                              ELSE {parsed[k].readSymbol : k \in 1..Len(parsed)},
                 stackAlphabet |-> {},
                 tapeAlphabet |-> IF tapeAlpha # {} THEN Supplied(tapeAlpha)
                                  ELSE {parsed[k].readSymbol : k \in 1..Len(parsed)}
                                       \cup {parsed[k].writeSymbol : k \in 1..Len(parsed)},
                 states |-> CompiledStates(ns, ts, "Turing Machine")]]

\* one `validate(T, ...); this._machine = this._compileT(...)` pair of compile
CompileStep(as, alphabets, options, ns, ts) ==
    LET v == Validate(as, alphabets, options, ns, ts) IN
    IF v # "ok" THEN Failed(v)
    ELSE CASE as = "DFA" -> _compileDFA(alphabets.alphabet, ns, ts)
           [] as = "NFA" -> _compileNFA(alphabets.alphabet, ns, ts)
           [] as = "PDA" -> _compilePDA(alphabets.alphabet, alphabets.stackAlphabet, ns, ts)
           [] as = "Turing Machine" ->
                _compileTuringMachine(alphabets.alphabet, alphabets.tapeAlphabet, ns, ts)

\* an order that tries the finite automata first
AutoOrderFAFirst == <<"DFA", "NFA", "PDA", "Turing Machine">>

\* the order in which compile('Auto') tries the types
AutoOrder == <<"Turing Machine", "PDA", "DFA", "NFA">>

\* the try/catch chain of compile('Auto'), from attempt k on
RECURSIVE AutoFrom(_, _, _, _, _)
AutoFrom(k, alphabets, options, ns, ts) ==
    IF k > Len(AutoOrder) THEN Failed("UnableToCompile")
    ELSE LET r == CompileStep(AutoOrder[k], alphabets, options, ns, ts) IN
         IF r.err = "ok" THEN r ELSE AutoFrom(k + 1, alphabets, options, ns, ts)

\* Engine.compile(as, alphabets, options): [err, machine]
CompileResult(as, alphabets, options, ns, ts) ==
    IF as = "Auto" THEN AutoFrom(1, alphabets, options, ns, ts)
    ELSE CompileStep(as, alphabets, options, ns, ts)

\* the _nodeMap a successful compile installs: state index -> node id
NodeMapOf(ns) == [i \in 1..Len(ns) |-> ns[i].id]

---------------------------------------------------------------------------
(* Stepping a DFA / NFA: the code shared by advance and _faEval.           *)

\* is character `undefined`, i.e. is the cursor past the end of the string
PastEnd(str, idx) == idx >= Len(str)

\* MatchFrom with the symbol branch leaving the cursor where it is
RECURSIVE MatchFromNoAdvance(_, _, _, _, _, _, _)
MatchFromNoAdvance(trs, k, character, idx, i, tls, stepped) ==
    IF k > Len(trs) THEN tls
    ELSE LET transition == trs[k]
             eps == Includes(transition.conditions, Str(EPSILON))
             tls1 == IF eps THEN SetAt(tls, i, <<transition.to, idx>>) ELSE tls
             stepped1 == stepped \/ eps
             sym == Includes(transition.conditions, Str(character))
             tls2 == IF ~sym THEN tls1
                     ELSE IF stepped1 THEN Append(tls1, <<transition.to, idx>>)
                     ELSE SetAt(tls1, i, <<transition.to, idx>>)
         IN  MatchFromNoAdvance(trs, k + 1, character, idx, i, tls2, stepped1 \/ sym)

\* the state.transitions.forEach callback for the timeline in slot i (0-based):
\* the timeline list after the transitions k.. of the state have been tried
RECURSIVE MatchFrom(_, _, _, _, _, _, _)
MatchFrom(trs, k, character, idx, i, tls, stepped) ==
    IF k > Len(trs) THEN tls
    ELSE LET transition == trs[k]
             eps == Includes(transition.conditions, Str(EPSILON))
             tls1 == IF eps THEN SetAt(tls, i, <<transition.to, idx>>) ELSE tls
             stepped1 == stepped \/ eps
             sym == Includes(transition.conditions, Str(character))
             tls2 == IF ~sym THEN tls1
                     ELSE IF stepped1 THEN Append(tls1, <<transition.to, idx + 1>>)
                     ELSE SetAt(tls1, i, <<transition.to, idx + 1>>)
         IN  MatchFrom(trs, k + 1, character, idx, i, tls2, stepped1 \/ sym)

\* StepTimeline testing the state's initial flag where the code tests final
StepTimelineInitialFlag(tls, i, str, states) ==
    LET s == tls[i + 1][1]
        idx == tls[i + 1][2]
    IN  IF PastEnd(str, idx)
        THEN IF states[s].initial THEN [timelines |-> tls, signal |-> "Accept"]
             ELSE IF Len(tls) = 1 THEN [timelines |-> tls, signal |-> "Reject"]
             ELSE [timelines |-> Splice(tls, i), signal |-> "ok"]
        ELSE [timelines |-> MatchFrom(states[s].transitions, 1, str[idx + 1], idx, i, tls, FALSE),
              signal |-> "ok"]

\* StepTimeline removing the finished final timeline it accepts on
StepTimelineConsumesAccepting(tls, i, str, states) ==
    LET s == tls[i + 1][1]
        idx == tls[i + 1][2]
    IN  IF PastEnd(str, idx)
        THEN IF states[s].final THEN [timelines |-> Splice(tls, i), signal |-> "Accept"]
             ELSE IF Len(tls) = 1 THEN [timelines |-> tls, signal |-> "Reject"]
             ELSE [timelines |-> Splice(tls, i), signal |-> "ok"]
        ELSE [timelines |-> MatchFrom(states[s].transitions, 1, str[idx + 1], idx, i, tls, FALSE),
              signal |-> "ok"]

\* StepTimeline rejecting at a finished non-final timeline whatever the number
\* of timelines
StepTimelineAlwaysRejects(tls, i, str, states) ==
    LET s == tls[i + 1][1]
        idx == tls[i + 1][2]
    IN  IF PastEnd(str, idx)
        THEN IF states[s].final THEN [timelines |-> tls, signal |-> "Accept"]
             ELSE [timelines |-> tls, signal |-> "Reject"]
        ELSE [timelines |-> MatchFrom(states[s].transitions, 1, str[idx + 1], idx, i, tls, FALSE),
              signal |-> "ok"]

\* the body run for the timeline in slot i: [timelines, signal], signal being
\* "Accept" / "Reject" when the body throws or returns a verdict, "ok" otherwise
StepTimeline(tls, i, str, states) ==
    LET s == tls[i + 1][1]
        idx == tls[i + 1][2]
    IN  IF PastEnd(str, idx)
        THEN IF states[s].final THEN [timelines |-> tls, signal |-> "Accept"]
             ELSE IF Len(tls) = 1 THEN [timelines |-> tls, signal |-> "Reject"]
             ELSE [timelines |-> Splice(tls, i), signal |-> "ok"]
        ELSE [timelines |-> MatchFrom(states[s].transitions, 1, str[idx + 1], idx, i, tls, FALSE),
              signal |-> "ok"]

\* forEach visiting the first slot only
RECURSIVE AdvanceFromFirstOnly(_, _, _, _, _)
AdvanceFromFirstOnly(i, len0, tls, str, states) ==
    IF i >= len0 \/ i >= 1 THEN [timelines |-> tls, signal |-> "ok"]
    ELSE IF i >= Len(tls) THEN AdvanceFromFirstOnly(i + 1, len0, tls, str, states)
    ELSE LET r == StepTimeline(tls, i, str, states) IN
         IF r.signal # "ok" THEN r
         ELSE AdvanceFromFirstOnly(i + 1, len0, r.timelines, str, states)

\* this._timelines.forEach(...) of advance: the slots i .. len0 - 1 of the list,
\* len0 being the length when forEach began; a slot that no longer exists is skipped
RECURSIVE AdvanceFrom(_, _, _, _, _)
AdvanceFrom(i, len0, tls, str, states) ==
    IF i >= len0 THEN [timelines |-> tls, signal |-> "ok"]
    ELSE IF i >= Len(tls) THEN AdvanceFrom(i + 1, len0, tls, str, states)
    ELSE LET r == StepTimeline(tls, i, str, states) IN
         IF r.signal # "ok" THEN r
         ELSE AdvanceFrom(i + 1, len0, r.timelines, str, states)

\* starting a timeline in every state of the machine
InitialTimelinesEveryState(m) == [k \in 1..Len(m.states) |-> <<k, 0>>]

\* the timelines simulate and _faEval start from
InitialTimelines(m) == [k \in 1..Len(m.initial) |-> <<m.initial[k], 0>>]

\* _validateInput looking at the first character only
ValidInputFirstOnly(m, str) == str = <<>> \/ Str(str[1]) \in m.alphabet

\* Engine._validateInput: every character of the input is in the alphabet
ValidInput(m, str) == \A k \in 1..Len(str) : Str(str[k]) \in m.alphabet

---------------------------------------------------------------------------
(* The inputs of the operations.                                           *)

InputChars == {"a", "b"}

RECURSIVE WordsUpTo(_)
WordsUpTo(n) ==
    IF n = 0 THEN {<<>>}
    ELSE LET shorter == WordsUpTo(n - 1) IN
         shorter \cup {Append(w, c) : w \in shorter, c \in InputChars}

\* the strings given to simulate and eval
Inputs == WordsUpTo(MaxLen) \cup {Str(EPSILON)}

MachineTypes == {"Auto", "DFA", "NFA", "PDA", "Turing Machine"}

NoAlphabets == [alphabet |-> {}, stackAlphabet |-> {}, tapeAlphabet |-> {}]

\* explicit alphabets: the input alphabet {a} alone, and all three alphabets
OnlyA == [alphabet |-> {{Str("a")}}, stackAlphabet |-> {}, tapeAlphabet |-> {}]
FullAB ==
    [alphabet |-> {{Str("a"), Str("b")}}, stackAlphabet |-> {{Str("b"), Str("c")}},
     tapeAlphabet |-> {{Str("a"), Str("b")}}]

\* the alphabet sets given to compile
AlphabetSets == {NoAlphabets, OnlyA, FullAB}

\* explicit alphabets that supply one of the three sets only
StackA == [alphabet |-> {}, stackAlphabet |-> {{Str("a")}}, tapeAlphabet |-> {}]
TapeA == [alphabet |-> {}, stackAlphabet |-> {}, tapeAlphabet |-> {{Str("a")}}]
OneAlphabetSets == {NoAlphabets, OnlyA, StackA, TapeA}

ExplicitTypes == {"DFA", "NFA", "PDA", "Turing Machine"}

ValidationOptions == {[requireAllTransitions |-> b] : b \in BOOLEAN}

---------------------------------------------------------------------------
(* The graphs the engine is started on.                                    *)

A == Str("a")
B == Str("b")
E == Str(EPSILON)

Graph(ns, ts) == [nodes |-> ns, transitions |-> ts]

\* q0 (start), q1 (final), q0 -> q1 on 'a'
SimpleDFA ==
    Graph(<<Node(1, "q0", TRUE, FALSE), Node(2, "q1", FALSE, TRUE)>>,
          <<Transition(1, 2, <<A>>)>>)

\* q0 (start), q1, q2 (final); q0 -> q1 on 'a', q0 -> q2 on epsilon, q2 -> q2 on 'a'
BranchNFA ==
    Graph(<<Node(1, "q0", TRUE, FALSE), Node(2, "q1", FALSE, FALSE), Node(3, "q2", FALSE, TRUE)>>,
          <<Transition(1, 2, <<A>>), Transition(1, 3, <<E>>), Transition(3, 3, <<A>>)>>)

\* a total DFA over {a, b}: an odd number of a's
ParityDFA ==
    Graph(<<Node(1, "q0", TRUE, FALSE), Node(2, "q1", FALSE, TRUE)>>,
          <<Transition(1, 2, <<A>>), Transition(1, 1, <<B>>),
            Transition(2, 1, <<A>>), Transition(2, 2, <<B>>)>>)

\* an epsilon self-loop on the non-final q1
EpsilonLoopNFA ==
    Graph(<<Node(1, "q0", TRUE, FALSE), Node(2, "q1", FALSE, FALSE), Node(3, "q2", FALSE, TRUE)>>,
          <<Transition(1, 2, <<A>>), Transition(2, 2, <<E>>), Transition(2, 3, <<B>>)>>)

\* two start nodes
TwoStartNFA ==
    Graph(<<Node(1, "q0", TRUE, FALSE), Node(2, "q1", TRUE, TRUE)>>,
          <<Transition(1, 2, <<A>>), Transition(2, 1, <<B>>), Transition(1, 1, <<A>>)>>)

\* a start node, an accept and a reject node and no transition
BareTM ==
    Graph(<<Node(1, "q0", TRUE, FALSE), Node(2, "accept", FALSE, TRUE),
            Node(3, "reject", FALSE, TRUE)>>,
          <<>>)

\* a Turing machine with conditions "a a R", "b b N" and "a b L"
SmallTM ==
    Graph(<<Node(1, "q0", TRUE, FALSE), Node(2, "accept", FALSE, TRUE),
            Node(3, "reject", FALSE, TRUE)>>,
          <<Transition(1, 1, <<<<"a", " ", "a", " ", "R">>>>),
            Transition(1, 2, <<<<"b", " ", "b", " ", "N">>>>),
            Transition(2, 3, <<<<"a", " ", "b", " ", "L">>>>)>>)

\* a condition that passes both the PDA pattern and the 'Push' comparison
LongPDA ==
    Graph(<<Node(1, "q0", TRUE, FALSE), Node(2, "q1", FALSE, TRUE)>>,
          <<Transition(1, 2, <<<<"a", " ", "b", " ", "P", "u", "s", "h", " ", "c",
                                 " ", "P", " ", "d">>>>)>>)

\* no start node
NoStart ==
    Graph(<<Node(1, "q0", FALSE, FALSE), Node(2, "q1", FALSE, TRUE)>>,
          <<Transition(1, 2, <<A>>)>>)

\* the total DFAs over {a, b} on the two nodes q0, q1: a start node, a set of
\* final nodes, a target d[n][c] for every node n and symbol c, and the way the
\* transitions are drawn (one per symbol, or one transition carrying both
\* symbols when they lead to the same node)
DFANodes == {1, 2}

DFATransitionsOf(n, d, shape) ==
    IF shape = "merged" /\ d[n]["a"] = d[n]["b"]
    THEN <<Transition(n, d[n]["a"], <<A, B>>)>>
    ELSE <<Transition(n, d[n]["a"], <<A>>), Transition(n, d[n]["b"], <<B>>)>>

TotalDFAGraph(start, finals, d, shape) ==
    Graph(<<Node(1, "q0", start = 1, 1 \in finals), Node(2, "q1", start = 2, 2 \in finals)>>,
          DFATransitionsOf(1, d, shape) \o DFATransitionsOf(2, d, shape))

TotalDFAs ==
    {TotalDFAGraph(start, finals, d, shape) :
        start \in DFANodes, finals \in SUBSET DFANodes,
        d \in [DFANodes -> [{"a", "b"} -> DFANodes]],
        shape \in {"split", "merged"}}

\* graphs without transitions: every list of at most MaxNodes nodes, each a q0
\* marked start and / or end, a final accept or reject marked start or not, or an
\* accept that is not final
NodeKinds ==
    {[label |-> "q0", start |-> st, end |-> en] : st \in BOOLEAN, en \in BOOLEAN}
    \cup {[label |-> l, start |-> st, end |-> TRUE] : l \in {"accept", "reject"}, st \in BOOLEAN}
    \cup {[label |-> "accept", start |-> FALSE, end |-> FALSE]}

MarkedGraph(kinds) ==
    Graph([i \in 1..Len(kinds) |-> Node(i, kinds[i].label, kinds[i].start, kinds[i].end)], <<>>)

MarkedGraphs ==
    {MarkedGraph(kinds) : kinds \in UNION {[1..n -> NodeKinds] : n \in 0..MaxNodes}}

\* graphs on q0 (start), q1 (final) with at most MaxTransitions transitions, each
\* leaving q0 or q1 with the condition list ['a'], ['b'], [epsilon], ['a', 'a'],
\* ['ab'] or ['']
ConditionLists == {<<A>>, <<B>>, <<E>>, <<A, A>>, <<<<"a", "b">>>>, <<<<>>>>}

ConditionedGraphs ==
    {Graph(<<Node(1, "q0", TRUE, FALSE), Node(2, "q1", FALSE, TRUE)>>, ts) :
        ts \in UNION {[1..n -> {Transition(from, 2, cs) : from \in {1, 2}, cs \in ConditionLists}]
                        : n \in 0..MaxTransitions}}

\* the strings "<symbol> <readStackSymbol> <action> <actionStackSymbol>" and
\* "<readSymbol> <writeSymbol> <movement>"
PDAString(symbol, readStackSymbol, action, actionStackSymbol) ==
    <<symbol, " ", readStackSymbol, " ">> \o action \o <<" ", actionStackSymbol>>

TMString(readSymbol, writeSymbol, movement) ==
    <<readSymbol, " ", writeSymbol, " ", movement>>

\* typed conditions with a field of two characters: "ab b Push c P d",
\* "a bc P d", "a b P cd", "ab a R" and "a bc R"
LongFieldConditions ==
    {<<"a", "b", " ", "b", " ">> \o PUSH \o <<" ", "c", " ", "P", " ", "d">>,
     <<"a", " ", "b", "c", " ", "P", " ", "d">>,
     <<"a", " ", "b", " ", "P", " ", "c", "d">>,
     <<"a", "b", " ", "a", " ", "R">>,
     <<"a", " ", "b", "c", " ", "R">>}

\* PDA conditions in the editor's form ("a b P c", "a b p c"), with another
\* letter ("a b X c"), with the action spelled out ("a b Push c") and spelled out
\* and followed by two more fields ("a b Push c P d")
TypedConditions ==
    {PDAString("a", "b", <<act>>, "c") : act \in {"P", "p", "X"}}
    \cup {PDAString("a", "b", act, "c") : act \in {PUSH, POP}}
    \cup {PDAString(x, y, act, z) \o <<" ", "P", " ", "d">> :
            x \in InputChars, y \in InputChars, z \in InputChars, act \in {PUSH, POP}}
    \cup {TMString(x, y, m) : x \in InputChars, y \in InputChars, m \in {"R", "X"}}
    \cup LongFieldConditions

\* q0 (start), accept, reject and one transition q0 -> accept with one typed
\* condition, or with the same typed condition twice
TypedGraphs ==
    {Graph(BareTM.nodes, <<Transition(1, 2, cs)>>) :
        cs \in {<<c>> : c \in TypedConditions} \cup {<<c, c>> : c \in TypedConditions}}

Graphs ==
    {SimpleDFA, BranchNFA, ParityDFA, EpsilonLoopNFA, TwoStartNFA, BareTM, SmallTM,
     LongPDA, NoStart}

\* the graphs the checks of validate are exercised on
ValidationGraphs == MarkedGraphs \cup ConditionedGraphs \cup TypedGraphs \cup Graphs

---------------------------------------------------------------------------
(* The engine.                                                             *)

\* a call of the engine, as recorded in lastCall
Call(op, as, alphabets, options, inputString) ==
    [op |-> op, as |-> as, alphabets |-> alphabets, options |-> options,
     inputString |-> inputString]

NoOptions == [requireAllTransitions |-> FALSE]

CallCompile(as, alphabets, options) == Call("compile", as, alphabets, options, <<>>)
CallWith(op, inputString) == Call(op, "none", NoAlphabets, NoOptions, inputString)
CallOf(op) == Call(op, "none", NoAlphabets, NoOptions, <<>>)

\* the editor with no simulation running and no fast-forward callback waiting
HostIdle ==
    /\ simulating = FALSE
    /\ simState = "null"
    /\ ffPending = 0

EvalIdle ==
    /\ evalPc = "idle"
    /\ evalInput = <<>>
    /\ evalTimelines = <<>>
    /\ evalI = 0
    /\ evalResult = "none"

\* the state after `new Engine(canvas)` and the loading of a graph
Init ==
    /\ \E g \in Graphs :
        /\ nodes = g.nodes
        /\ transitions = g.transitions
    /\ machine = NoMachine
    /\ nodeMap = <<>>
    /\ timelines = <<>>
    /\ simStates = <<>>
    /\ input = <<>>
    /\ stack = <<>>
    /\ tape = <<>>
    /\ lastCall = CallOf("new")
    /\ outcome = "ok"
    /\ EvalIdle
    /\ HostIdle

\* the same engine, started on one of the total DFAs or on one of the graphs above
InitEval ==
    /\ \E g \in TotalDFAs \cup Graphs :
        /\ nodes = g.nodes
        /\ transitions = g.transitions
    /\ machine = NoMachine
    /\ nodeMap = <<>>
    /\ timelines = <<>>
    /\ simStates = <<>>
    /\ input = <<>>
    /\ stack = <<>>
    /\ tape = <<>>
    /\ lastCall = CallOf("new")
    /\ outcome = "ok"
    /\ EvalIdle
    /\ HostIdle

\* a new engine, started on one of the graphs drawn for validate
InitValidate ==
    /\ \E g \in ValidationGraphs :
        /\ nodes = g.nodes
        /\ transitions = g.transitions
    /\ machine = NoMachine
    /\ nodeMap = <<>>
    /\ timelines = <<>>
    /\ simStates = <<>>
    /\ input = <<>>
    /\ stack = <<>>
    /\ tape = <<>>
    /\ lastCall = CallOf("new")
    /\ outcome = "ok"
    /\ EvalIdle
    /\ HostIdle

\* Engine.validate(as, alphabets, options): returns or throws, assigns nothing
ValidateCall(as, alphabets, options) ==
    /\ evalPc = "idle"
    /\ outcome' = Validate(as, alphabets, options, nodes, transitions)
    /\ lastCall' = Call("validate", as, alphabets, options, <<>>)
    /\ UNCHANGED <<graphVars, engineVars, evalVars>>

\* compile assigning this._machine before it knows that the compilation succeeded
CompileDropsMachine(as, alphabets, options) ==
    /\ evalPc = "idle"
    /\ LET r == CompileResult(as, alphabets, options, nodes, transitions) IN
        /\ machine' = r.machine
        /\ nodeMap' = IF r.err = "ok" THEN NodeMapOf(nodes) ELSE <<>>
        /\ outcome' = r.err
    /\ lastCall' = CallCompile(as, alphabets, options)
    /\ UNCHANGED <<graphVars, timelines, simStates, input, stack, tape, evalVars>>

\* Engine.compile(as, alphabets, options)
Compile(as, alphabets, options) ==
    /\ evalPc = "idle"
    /\ LET r == CompileResult(as, alphabets, options, nodes, transitions) IN
        /\ machine' = IF r.err = "ok" THEN r.machine ELSE machine
        /\ nodeMap' = IF r.err = "ok" THEN NodeMapOf(nodes) ELSE <<>>
        /\ outcome' = r.err
    /\ lastCall' = CallCompile(as, alphabets, options)
    /\ UNCHANGED <<graphVars, timelines, simStates, input, stack, tape, evalVars>>

\* the try/catch chain of _determineType('Auto'), from attempt k on
RECURSIVE DetermineAutoFrom(_, _, _, _, _)
DetermineAutoFrom(k, alphabets, options, ns, ts) ==
    IF k > Len(AutoOrder) THEN "UnableToCompile"
    ELSE IF Validate(AutoOrder[k], alphabets, options, ns, ts) = "ok" THEN "ok"
         ELSE DetermineAutoFrom(k + 1, alphabets, options, ns, ts)

\* Engine._determineType(as, alphabets, options): "ok" when a type is returned,
\* the error thrown otherwise
_determineType(as, alphabets, options, ns, ts) ==
    IF as = "Auto" THEN DetermineAutoFrom(1, alphabets, options, ns, ts)
    ELSE Validate(as, alphabets, options, ns, ts)

\* Engine.exportJFF(as, alphabets, options): _determineType clears _nodeMap
\* before each validate and nothing assigns it again
ExportJFF(as, alphabets, options) ==
    /\ evalPc = "idle"
    /\ nodeMap' = <<>>
    /\ outcome' = _determineType(as, alphabets, options, nodes, transitions)
    /\ lastCall' = Call("exportJFF", as, alphabets, options, <<>>)
    /\ UNCHANGED <<graphVars, machine, timelines, simStates, input, stack, tape, evalVars>>

\* simulate leaving the tape of an earlier Turing-machine run in place
SimulateStaleTape(inputString) ==
    /\ evalPc = "idle"
    /\ IF machine = NoMachine
       THEN /\ outcome' = "NoMachine"
            /\ UNCHANGED <<timelines, simStates, input, stack, tape>>
       ELSE /\ timelines' = InitialTimelines(machine)
            /\ simStates' = machine.states
            /\ input' = IF machine.type # "Turing Machine" THEN inputString ELSE <<>>
            /\ tape' = IF machine.type # "Turing Machine" THEN tape ELSE inputString
            /\ stack' = <<>>
            /\ outcome' = "ok"
    /\ lastCall' = CallWith("simulate", inputString)
    /\ UNCHANGED <<graphVars, machine, nodeMap, evalVars>>

\* Engine.simulate(inputString)
Simulate(inputString) ==
    /\ evalPc = "idle"
    /\ IF machine = NoMachine
       THEN /\ outcome' = "NoMachine"
            /\ UNCHANGED <<timelines, simStates, input, stack, tape>>
       ELSE /\ timelines' = InitialTimelines(machine)
            /\ simStates' = machine.states
            /\ input' = IF machine.type # "Turing Machine" THEN inputString ELSE <<>>
            /\ tape' = IF machine.type # "Turing Machine" THEN <<>> ELSE inputString
            /\ stack' = <<>>
            /\ outcome' = "ok"
    /\ lastCall' = CallWith("simulate", inputString)
    /\ UNCHANGED <<graphVars, machine, nodeMap, evalVars>>

\* Engine.resetSimulation()
ResetSimulation ==
    /\ evalPc = "idle"
    /\ input' = <<>>
    /\ tape' = <<>>
    /\ stack' = <<>>
    /\ timelines' = <<>>
    /\ simStates' = <<>>
    /\ outcome' = "ok"
    /\ lastCall' = CallOf("resetSimulation")
    /\ UNCHANGED <<graphVars, machine, nodeMap, evalVars>>

\* endSimulation without its call of resetSimulation
EndSimulationNoReset ==
    /\ evalPc = "idle"
    /\ machine' = NoMachine
    /\ outcome' = "ok"
    /\ lastCall' = CallOf("endSimulation")
    /\ UNCHANGED <<graphVars, nodeMap, evalVars, timelines, simStates, input, stack, tape>>

\* Engine.endSimulation()
EndSimulation ==
    /\ evalPc = "idle"
    /\ machine' = NoMachine
    /\ input' = <<>>
    /\ tape' = <<>>
    /\ stack' = <<>>
    /\ timelines' = <<>>
    /\ simStates' = <<>>
    /\ outcome' = "ok"
    /\ lastCall' = CallOf("endSimulation")
    /\ UNCHANGED <<graphVars, nodeMap, evalVars>>

\* what advance() does to the timelines: [timelines, signal]
AdvanceResult ==
    IF machine.type \in {"DFA", "NFA"}
    THEN AdvanceFrom(0, Len(timelines), timelines, input, simStates)
    ELSE [timelines |-> timelines, signal |-> "ok"]

\* Engine.advance()
Advance ==
    /\ evalPc = "idle"
    /\ IF machine = NoMachine
       THEN /\ outcome' = "NoMachine"
            /\ UNCHANGED timelines
       ELSE /\ Len(AdvanceResult.timelines) <= MaxTimelines
            /\ timelines' = AdvanceResult.timelines
            /\ outcome' = AdvanceResult.signal
    /\ lastCall' = CallOf("advance")
    /\ UNCHANGED <<graphVars, machine, nodeMap, simStates, input, stack, tape, evalVars>>

\* eval with _faEval working on this._timelines as simulate does
EvalShared(inputString) ==
    /\ evalPc = "idle"
    /\ IF machine = NoMachine
       THEN /\ outcome' = "NoMachine"
            /\ UNCHANGED <<evalVars, timelines>>
       ELSE IF ~ValidInput(machine, inputString)
       THEN /\ outcome' = "InvalidInput"
            /\ UNCHANGED <<evalVars, timelines>>
       ELSE IF machine.type \in {"DFA", "NFA"}
       THEN /\ evalPc' = "scan"
            /\ evalInput' = inputString
            /\ evalTimelines' = InitialTimelines(machine)
            /\ timelines' = InitialTimelines(machine)
            /\ evalI' = 0
            /\ evalResult' = "none"
            /\ outcome' = "running"
       ELSE /\ evalPc' = "done"
            /\ evalResult' = "false"
            /\ outcome' = "running"
            /\ UNCHANGED <<evalInput, evalTimelines, evalI, timelines>>
    /\ lastCall' = CallWith("eval", inputString)
    /\ UNCHANGED <<graphVars, machine, nodeMap, simStates, input, stack, tape>>

\* eval returning true for a PDA or a Turing machine
EvalOthersAccept(inputString) ==
    /\ evalPc = "idle"
    /\ IF machine = NoMachine
       THEN /\ outcome' = "NoMachine"
            /\ UNCHANGED evalVars
       ELSE IF ~ValidInput(machine, inputString)
       THEN /\ outcome' = "InvalidInput"
            /\ UNCHANGED evalVars
       ELSE IF machine.type \in {"DFA", "NFA"}
       THEN /\ evalPc' = "scan"
            /\ evalInput' = inputString
            /\ evalTimelines' = InitialTimelines(machine)
            /\ evalI' = 0
            /\ evalResult' = "none"
            /\ outcome' = "running"
       ELSE /\ evalPc' = "done"
            /\ evalResult' = "true"
            /\ outcome' = "running"
            /\ UNCHANGED <<evalInput, evalTimelines, evalI>>
    /\ lastCall' = CallWith("eval", inputString)
    /\ UNCHANGED <<graphVars, engineVars>>

\* Engine.eval(inputString), up to the first scan of _faEval
Eval(inputString) ==
    /\ evalPc = "idle"
    /\ IF machine = NoMachine
       THEN /\ outcome' = "NoMachine"
            /\ UNCHANGED evalVars
       ELSE IF ~ValidInput(machine, inputString)
       THEN /\ outcome' = "InvalidInput"
            /\ UNCHANGED evalVars
       ELSE IF machine.type \in {"DFA", "NFA"}
       THEN /\ evalPc' = "scan"
            /\ evalInput' = inputString
            /\ evalTimelines' = InitialTimelines(machine)
            /\ evalI' = 0
            /\ evalResult' = "none"
            /\ outcome' = "running"
       ELSE /\ evalPc' = "done"
            /\ evalResult' = "false"
            /\ outcome' = "running"
            /\ UNCHANGED <<evalInput, evalTimelines, evalI>>
    /\ lastCall' = CallWith("eval", inputString)
    /\ UNCHANGED <<graphVars, engineVars>>

\* _faEval: one iteration of the for loop, or the for loop's end and the
\* return to the top of while (true)
EvalStep ==
    /\ evalPc = "scan"
    /\ IF evalI < Len(evalTimelines)
       THEN LET r == StepTimeline(evalTimelines, evalI, evalInput, machine.states) IN
            /\ Len(r.timelines) <= MaxTimelines
            /\ IF r.signal = "ok"
               THEN /\ evalTimelines' = r.timelines
                    /\ evalI' = evalI + 1
                    /\ UNCHANGED <<evalPc, evalResult>>
               ELSE /\ evalPc' = "done"
                    /\ evalResult' = IF r.signal = "Accept" THEN "true" ELSE "false"
                    /\ UNCHANGED <<evalTimelines, evalI>>
       ELSE /\ evalI' = 0
            /\ UNCHANGED <<evalPc, evalTimelines, evalResult>>
    /\ UNCHANGED <<graphVars, engineVars, lastCall, outcome, evalInput>>

\* eval hands its verdict to the caller
EvalReturn ==
    /\ evalPc = "done"
    /\ outcome' = evalResult
    /\ evalPc' = "idle"
    /\ evalInput' = <<>>
    /\ evalTimelines' = <<>>
    /\ evalI' = 0
    /\ evalResult' = "none"
    /\ UNCHANGED <<graphVars, engineVars, lastCall>>

\* compile with any arguments
CompileAny ==
    \E as \in MachineTypes, alphabets \in AlphabetSets, options \in ValidationOptions :
        Compile(as, alphabets, options)

\* compile as the editor calls it (requireAllTransitions: false), with no
\* alphabet or with all of them
CompileLoose ==
    \E as \in MachineTypes, alphabets \in {NoAlphabets, FullAB} :
        Compile(as, alphabets, [requireAllTransitions |-> FALSE])

SimulateAny == \E w \in Inputs : Simulate(w)

EvalAny == \E w \in Inputs : Eval(w)

\* compile exactly as the editor calls it: no alphabets, requireAllTransitions: false
CompileHost == \E as \in MachineTypes : Compile(as, NoAlphabets, NoOptions)

Next ==
    \/ CompileLoose /\ UNCHANGED hostVars
    \/ SimulateAny /\ UNCHANGED hostVars
    \/ Advance /\ UNCHANGED hostVars
    \/ ResetSimulation /\ UNCHANGED hostVars
    \/ EndSimulation /\ UNCHANGED hostVars
    \/ EvalAny /\ UNCHANGED hostVars
    \/ EvalStep /\ UNCHANGED hostVars
    \/ EvalReturn /\ UNCHANGED hostVars

Spec == Init /\ [][Next]_vars

\* eval is a synchronous loop: once called it keeps running
FairSpec == Spec /\ WF_vars(EvalStep /\ UNCHANGED hostVars)

\* q0 (start), q1 (final); q0 -> q1 on epsilon and on 'a': every symbol of the
\* inferred alphabet {epsilon, a} is claimed once by q0, the only node with
\* outgoing transitions
EpsilonDFA ==
    Graph(<<Node(1, "q0", TRUE, FALSE), Node(2, "q1", FALSE, TRUE)>>,
          <<Transition(1, 2, <<E>>), Transition(1, 2, <<A>>)>>)

RunGraphs == Graphs \cup {EpsilonDFA}

InitRun ==
    /\ \E g \in RunGraphs :
        /\ nodes = g.nodes
        /\ transitions = g.transitions
    /\ machine = NoMachine
    /\ nodeMap = <<>>
    /\ timelines = <<>>
    /\ simStates = <<>>
    /\ input = <<>>
    /\ stack = <<>>
    /\ tape = <<>>
    /\ lastCall = CallOf("new")
    /\ outcome = "ok"
    /\ EvalIdle
    /\ HostIdle

\* every operation of the engine, on the graphs of Init and the DFA with an
\* epsilon transition
SpecRun == InitRun /\ [][Next]_vars

\* compiling only, with every combination of arguments
NextCompile ==
    \/ CompileAny /\ UNCHANGED hostVars
    \/ EndSimulation /\ UNCHANGED hostVars

SpecCompile == Init /\ [][NextCompile]_vars

\* validate as the editor's options would have it, with no alphabet
ValidateLoose == \E as \in ExplicitTypes : ValidateCall(as, NoAlphabets, NoOptions)

\* every operation of the engine, validate included
NextFrame ==
    \/ Next
    \/ ValidateLoose /\ UNCHANGED hostVars

SpecFrame == Init /\ [][NextFrame]_vars

\* exportJFF as the editor calls it (no alphabets, requireAllTransitions: false)
ExportJFFHost == \E as \in MachineTypes : ExportJFF(as, NoAlphabets, NoOptions)

\* the operations of the engine together with exportJFF
NextExport ==
    \/ Next
    \/ ExportJFFHost /\ UNCHANGED hostVars

SpecExport == Init /\ [][NextExport]_vars

\* layer.reduce((arr, entity) => [entity, ...arr], []): the list reversed
ReversedEntities(seq) == [k \in 1..Len(seq) |-> seq[Len(seq) + 1 - k]]

\* Node.serialize(id)
SerializeNode(id, n) ==
    [id |-> id, type |-> "NODE", label |-> n.label, start |-> n.start, end |-> n.end,
     from |-> 0, to |-> 0, conditions |-> <<>>]

\* a dehydrated transition
DehydratedTransition(id, from, to, conditions) ==
    [id |-> id, type |-> "TRANSITION", label |-> "", start |-> FALSE, end |-> FALSE,
     from |-> from, to |-> to, conditions |-> conditions]

\* Transition.serialize(id, getID)
SerializeTransition(id, t, getID) ==
    DehydratedTransition(id, getID[t.from], getID[t.to], t.conditions)

\* Engine.export(): the entities of the node layer and then of the transition
\* layer, each layer in reverse insertion order, numbered from 0 in that order
Export(ns, ts) ==
    LET rn == ReversedEntities(ns)
        rt == ReversedEntities(ts)
        entityToIndex == [id \in {ns[k].id : k \in 1..Len(ns)} |->
                             (CHOOSE k \in 1..Len(rn) : rn[k].id = id) - 1]
    IN  [k \in 1..(Len(rn) + Len(rt)) |->
            IF k <= Len(rn) THEN SerializeNode(k - 1, rn[k])
            ELSE SerializeTransition(k - 1, rt[k - Len(rn)], entityToIndex)]

\* the identities in use in a graph: its nodes and the endpoints its
\* transitions hold
UsedIds(g) ==
    {g.nodes[k].id : k \in 1..Len(g.nodes)}
        \cup {g.transitions[k].from : k \in 1..Len(g.transitions)}
        \cup {g.transitions[k].to : k \in 1..Len(g.transitions)}

\* new Node(...): an object distinct from every object the graph holds
FreshId(g) ==
    CHOOSE i \in 1..(Cardinality(UsedIds(g)) + 1) :
        /\ i \notin UsedIds(g)
        /\ \A j \in 1..(i - 1) : j \in UsedIds(g)

\* the indices a dehydrated list uses
DataIds(data) ==
    {data[k].id : k \in 1..Len(data)}
        \cup {data[k].from : k \in 1..Len(data)}
        \cup {data[k].to : k \in 1..Len(data)}

\* Engine.load(dehydratedEntities) from entry k on, onto the graph g. `entities`
\* maps a dehydrated index to the node loaded for it, 0 where the slot is
\* empty or holds a transition; every entry is added at the end of its layer
RECURSIVE LoadFrom(_, _, _, _)
LoadFrom(data, k, entities, g) ==
    IF k > Len(data) THEN [err |-> "ok", nodes |-> g.nodes, transitions |-> g.transitions]
    ELSE IF data[k].type = "NODE"
    THEN LET entity == Node(FreshId(g), data[k].label, data[k].start, data[k].end) IN
         LoadFrom(data, k + 1, [entities EXCEPT ![data[k].id] = entity.id],
                  Graph(Append(g.nodes, entity), g.transitions))
    ELSE LET from == entities[data[k].from]
             to == entities[data[k].to]
         IN  IF from = 0 \/ to = 0
             THEN [err |-> "NotNodes", nodes |-> g.nodes, transitions |-> g.transitions]
             ELSE LoadFrom(data, k + 1, [entities EXCEPT ![data[k].id] = 0],
                           Graph(g.nodes,
                                 Append(g.transitions,
                                        Transition(from, to, data[k].conditions))))

\* Engine.load(dehydratedEntities) on an engine that holds the graph g
LoadOnto(data, g) == LoadFrom(data, 1, [i \in DataIds(data) |-> 0], g)

\* Engine.load(dehydratedEntities) on an engine that holds no entity
Load(data) == LoadOnto(data, Graph(<<>>, <<>>))

\* export() of this engine, loaded into an engine that has just been constructed
Reload ==
    /\ evalPc = "idle"
    /\ LET r == Load(Export(nodes, transitions)) IN
        /\ nodes' = r.nodes
        /\ transitions' = r.transitions
        /\ outcome' = r.err
    /\ machine' = NoMachine
    /\ nodeMap' = <<>>
    /\ timelines' = <<>>
    /\ simStates' = <<>>
    /\ input' = <<>>
    /\ stack' = <<>>
    /\ tape' = <<>>
    /\ lastCall' = CallOf("load")
    /\ UNCHANGED evalVars

\* the operations of the engine together with saving and reloading the graph
NextReload ==
    \/ Next
    \/ Reload /\ UNCHANGED hostVars

SpecReload == Init /\ [][NextReload]_vars

---------------------------------------------------------------------------
(* Editing the graph.                                                      *)

\* the engine after construction: no entity, no machine
InitEdit ==
    /\ nodes = <<>>
    /\ transitions = <<>>
    /\ machine = NoMachine
    /\ nodeMap = <<>>
    /\ timelines = <<>>
    /\ simStates = <<>>
    /\ input = <<>>
    /\ stack = <<>>
    /\ tape = <<>>
    /\ lastCall = CallOf("new")
    /\ outcome = "ok"
    /\ EvalIdle
    /\ HostIdle

\* layer.splice(layer.indexOf(entity), 1) for the entity at position k
WithoutEntity(layer, k) ==
    [j \in 1..(Len(layer) - 1) |-> IF j < k THEN layer[j] ELSE layer[j + 1]]

\* Engine.connected(from, to)
connected(ts, from, to) ==
    \E k \in 1..Len(ts) : ts[k].from = from /\ ts[k].to = to

\* Engine.findDoppel(transition) for the transition at position k: the position
\* of the first transition that runs the other way, 0 when there is none
findDoppel(ts, k) ==
    IF \E j \in 1..Len(ts) : ts[j].from = ts[k].to /\ ts[j].to = ts[k].from
    THEN CHOOSE j \in 1..Len(ts) :
            /\ ts[j].from = ts[k].to /\ ts[j].to = ts[k].from
            /\ \A i \in 1..(j - 1) : ~(ts[i].from = ts[k].to /\ ts[i].to = ts[k].from)
    ELSE 0

\* Engine.remove of a node that takes the node out of its layer and leaves
\* the transitions alone
RemoveNodeOnly(ns, ts, k) == Graph(WithoutEntity(ns, k), ts)

\* Engine.remove(entity) for the node at position k: the node leaves its layer
\* and so does every transition that enters or leaves it
RemoveNode(ns, ts, k) ==
    Graph(WithoutEntity(ns, k),
          SelectSeq(ts, LAMBDA t : ~(t.from = ns[k].id \/ t.to = ns[k].id)))

\* const temp = transition.to; transition.to = transition.from; transition.from = temp
Reversed(t) == Transition(t.to, t.from, t.conditions)

\* the Reverse Direction item on the transition at position k: the transition
\* is turned around and, when it has one, so is its doppel
ReverseDirection(ts, k) ==
    LET doppel == findDoppel(ts, k)
        turned == [ts EXCEPT ![k] = Reversed(ts[k])]
    IN  IF doppel # 0 THEN [turned EXCEPT ![doppel] = Reversed(turned[doppel])]
        ELSE turned

\* the data the Create Node dialog resolves with
NodeDatas ==
    {[label |-> "q0", start |-> TRUE, end |-> FALSE],
     [label |-> "q1", start |-> FALSE, end |-> TRUE]}

\* Engine.createNode(getData), once the position is clicked and the dialog is
\* confirmed: the DummyNode has left layer 1 and the new node is added to it
CreateNode ==
    \E data \in NodeDatas :
        /\ Len(nodes) < MaxEditNodes
        /\ nodes' = Append(nodes, Node(FreshId(Graph(nodes, transitions)),
                                       data.label, data.start, data.end))
        /\ lastCall' = CallOf("createNode")
        /\ outcome' = "ok"
        /\ UNCHANGED <<transitions, engineVars, evalVars>>

\* createTransition in the editor: two nodes are clicked and, unless they are
\* connected already, a transition without conditions is added between them
CreateTransition ==
    \E f \in 1..Len(nodes), t \in 1..Len(nodes) :
        /\ Len(transitions) < MaxEditTransitions
        /\ ~connected(transitions, nodes[f].id, nodes[t].id)
        /\ transitions' = Append(transitions, Transition(nodes[f].id, nodes[t].id, <<>>))
        /\ lastCall' = CallOf("createTransition")
        /\ outcome' = "ok"
        /\ UNCHANGED <<nodes, engineVars, evalVars>>

\* Delete in the node menu: engine.remove(node)
DeleteNode ==
    \E k \in 1..Len(nodes) :
        /\ LET g == RemoveNode(nodes, transitions, k) IN
            /\ nodes' = g.nodes
            /\ transitions' = g.transitions
        /\ lastCall' = CallOf("deleteNode")
        /\ outcome' = "ok"
        /\ UNCHANGED <<engineVars, evalVars>>

\* Delete in the transition menu: engine.remove(transition)
DeleteTransition ==
    \E k \in 1..Len(transitions) :
        /\ transitions' = WithoutEntity(transitions, k)
        /\ lastCall' = CallOf("deleteTransition")
        /\ outcome' = "ok"
        /\ UNCHANGED <<nodes, engineVars, evalVars>>

\* Reverse Direction in the transition menu
Reverse ==
    \E k \in 1..Len(transitions) :
        /\ transitions' = ReverseDirection(transitions, k)
        /\ lastCall' = CallOf("reverse")
        /\ outcome' = "ok"
        /\ UNCHANGED <<nodes, engineVars, evalVars>>

\* dehydrated lists given to load: a node pair with a transition, a transition
\* listed before its node, a transition that names a transition as an
\* endpoint, a transition that names an index nothing was loaded for, and two
\* nodes that share one index
LoadInputs ==
    LET q0 == Node(0, "q0", TRUE, FALSE)
        q1 == Node(0, "q1", FALSE, TRUE)
    IN  {<<SerializeNode(0, q0), SerializeNode(1, q1), DehydratedTransition(2, 0, 1, <<A>>)>>,
         <<DehydratedTransition(0, 1, 1, <<A>>), SerializeNode(1, q0)>>,
         <<SerializeNode(0, q0), DehydratedTransition(1, 0, 0, <<A>>),
           DehydratedTransition(2, 1, 0, <<B>>)>>,
         <<SerializeNode(0, q0), DehydratedTransition(1, 0, 5, <<A>>)>>,
         <<SerializeNode(0, q0), SerializeNode(0, q1), DehydratedTransition(1, 0, 0, <<B>>)>>}

\* Engine.load(dehydratedEntities) on the graph of the engine; the entries
\* before one that throws stay loaded
LoadAny ==
    \E data \in LoadInputs :
        LET r == LoadOnto(data, Graph(nodes, transitions)) IN
        /\ Len(r.nodes) <= MaxEditNodes
        /\ Len(r.transitions) <= MaxEditTransitions
        /\ nodes' = r.nodes
        /\ transitions' = r.transitions
        /\ lastCall' = CallOf("load")
        /\ outcome' = r.err
        /\ UNCHANGED <<engineVars, evalVars>>

\* the operations that change the graph
NextEdit ==
    \/ CreateNode /\ UNCHANGED hostVars
    \/ CreateTransition /\ UNCHANGED hostVars
    \/ DeleteNode /\ UNCHANGED hostVars
    \/ DeleteTransition /\ UNCHANGED hostVars
    \/ Reverse /\ UNCHANGED hostVars
    \/ LoadAny /\ UNCHANGED hostVars

SpecEdit == InitEdit /\ [][NextEdit]_vars

---------------------------------------------------------------------------
(* The editor: DiagramMaker and its testing modal.                         *)

\* the catch block of advance() and fastForward(): the simState a thrown value sets
Caught(thrown) ==
    CASE thrown = "Accept" -> "ACCEPTED"
      [] thrown = "Reject" -> "REJECTED"
      [] OTHER -> "DEAD"

\* Test Machine (disabled while frozen, that is while a machine is held): compile()
HostCompile ==
    /\ machine = NoMachine
    /\ CompileHost
    /\ UNCHANGED hostVars

\* Start in the modal, shown while a machine is held and no simulation is
\* running: simulate(inputString)
HostSimulate ==
    /\ machine # NoMachine
    /\ ~simulating
    /\ SimulateAny
    /\ simulating' = TRUE
    /\ simState' = "RUNNING"
    /\ UNCHANGED ffPending

\* Step, enabled while simState is RUNNING: advance()
HostAdvance ==
    /\ machine # NoMachine
    /\ simulating
    /\ simState = "RUNNING"
    /\ Advance
    /\ simState' = IF outcome' = "ok" THEN simState ELSE Caught(outcome')
    /\ UNCHANGED <<simulating, ffPending>>

\* Fast Forward, enabled while simState is RUNNING: fastForward() called by the
\* button; unless advance throws it leaves a callback waiting on setTimeout
HostFastForward ==
    /\ machine # NoMachine
    /\ simulating
    /\ simState = "RUNNING"
    /\ ffPending < MaxPending
    /\ Advance
    /\ IF outcome' = "ok"
       THEN /\ ffPending' = ffPending + 1
            /\ UNCHANGED simState
       ELSE /\ simState' = Caught(outcome')
            /\ UNCHANGED ffPending
    /\ UNCHANGED simulating

\* fastForward() called by a timer: nothing cancels the callback and it looks
\* at neither simulating nor simState; unless advance throws it waits again
FastForwardTimer ==
    /\ ffPending > 0
    /\ Advance
    /\ IF outcome' = "ok"
       THEN UNCHANGED <<simState, ffPending>>
       ELSE /\ simState' = Caught(outcome')
            /\ ffPending' = ffPending - 1
    /\ UNCHANGED simulating

\* Reset, shown while a simulation is running: reset()
HostReset ==
    /\ machine # NoMachine
    /\ simulating
    /\ ResetSimulation
    /\ simulating' = FALSE
    /\ simState' = "null"
    /\ UNCHANGED ffPending

\* the modal's close button, shown while a machine is held: end()
HostEnd ==
    /\ machine # NoMachine
    /\ EndSimulation
    /\ simulating' = FALSE
    /\ simState' = "null"
    /\ UNCHANGED ffPending

\* what the user and the timers can do in the editor
NextHost ==
    \/ HostCompile
    \/ HostSimulate
    \/ HostAdvance
    \/ HostFastForward
    \/ FastForwardTimer
    \/ HostReset
    \/ HostEnd

SpecHost == Init /\ [][NextHost]_vars

\* validate or compile with one alphabet supplied at most
ValidateOne ==
    \E as \in ExplicitTypes, alphabets \in OneAlphabetSets, options \in ValidationOptions :
        ValidateCall(as, alphabets, options)

CompileOne ==
    \E as \in MachineTypes, alphabets \in OneAlphabetSets, options \in ValidationOptions :
        Compile(as, alphabets, options)

\* the first call made on a new engine
FirstCall == lastCall = CallOf("new")

\* one validate or one compile on a new engine, on the graphs drawn for validate
NextValidate ==
    \/ FirstCall /\ ValidateOne /\ UNCHANGED hostVars
    \/ FirstCall /\ CompileOne /\ UNCHANGED hostVars

SpecValidate == InitValidate /\ [][NextValidate]_vars

\* compile with no alphabet supplied
CompileOpen ==
    \E as \in ExplicitTypes, options \in ValidationOptions : Compile(as, NoAlphabets, options)

\* the alphabets of the active machine, passed back as the explicit alphabets of
\* a call (a machine has the alphabets of its type only)
MachineAlphabets ==
    [alphabet |-> {machine.alphabet},
     stackAlphabet |-> IF machine.type = "PDA" THEN {machine.stackAlphabet} ELSE {},
     tapeAlphabet |-> IF machine.type = "Turing Machine" THEN {machine.tapeAlphabet} ELSE {}]

\* after a compile with no alphabet: validate, or compile, the same graph as
\* the same type with the machine's alphabets and the same options
AfterCompileOpen ==
    /\ lastCall.op = "compile"
    /\ lastCall.alphabets = NoAlphabets
    /\ outcome = "ok"

ValidateBack == AfterCompileOpen /\ ValidateCall(machine.type, MachineAlphabets, lastCall.options)

CompileBack == AfterCompileOpen /\ Compile(machine.type, MachineAlphabets, lastCall.options)

NextRoundTrip ==
    \/ FirstCall /\ CompileOpen /\ UNCHANGED hostVars
    \/ ValidateBack /\ UNCHANGED hostVars
    \/ CompileBack /\ UNCHANGED hostVars

SpecRoundTrip == InitValidate /\ [][NextRoundTrip]_vars

\* compiling and evaluating only, on the larger set of graphs
NextEval ==
    \/ CompileHost /\ UNCHANGED hostVars
    \/ EndSimulation /\ UNCHANGED hostVars
    \/ EvalAny /\ UNCHANGED hostVars
    \/ EvalStep /\ UNCHANGED hostVars
    \/ EvalReturn /\ UNCHANGED hostVars

SpecEval == InitEval /\ [][NextEval]_vars

FairSpecEval == SpecEval /\ WF_vars(EvalStep /\ UNCHANGED hostVars)

---------------------------------------------------------------------------
(* Properties.                                                             *)

OnGraph(g) == nodes = g.nodes /\ transitions = g.transitions

\* the machine compile(as, {}, {requireAllTransitions: false}) builds from g
MachineOf(as, g) == CompileStep(as, NoAlphabets, NoOptions, g.nodes, g.transitions).machine

\* an eval call is running, or has a verdict it has not yet returned
Evaluating == evalPc \in {"scan", "done"}

\* eval(w) was the last call and has returned (or thrown)
Returned(w) == lastCall = CallWith("eval", w) /\ evalPc = "idle"

\* C1: on the graph q0 (start), q1 (final), q0 -> q1 on 'a', compiled as DFA
\* with no explicit alphabet, eval("a") returns true, eval("") returns false and
\* eval("b") throws the invalid-input error without running.
C1_SimpleDFAVerdicts ==
    /\ [](OnGraph(SimpleDFA) /\ machine = MachineOf("DFA", SimpleDFA) =>
            /\ Returned(<<"a">>) => outcome = "true"
            /\ Returned(<<>>) => outcome = "false"
            /\ lastCall = CallWith("eval", <<"b">>) => outcome = "InvalidInput" /\ evalPc = "idle")
    /\ (OnGraph(SimpleDFA) /\ machine = MachineOf("DFA", SimpleDFA)
            /\ lastCall \in {CallWith("eval", <<"a">>), CallWith("eval", <<>>)}
            /\ evalPc = "scan") ~> (evalPc = "done")

C1_Witness ==
    /\ OnGraph(SimpleDFA)
    /\ machine = MachineOf("DFA", SimpleDFA)
    /\ Returned(<<"a">>)
    /\ outcome = "true"

\* the standard acceptance of a finite automaton: the configurations <<state,
\* cursor>> reachable from the initial states by symbol moves and epsilon moves
RefMoves(m, w, c) ==
    LET trs == m.states[c[1]].transitions IN
    {<<trs[k].to, c[2]>> : k \in {j \in 1..Len(trs) : Includes(trs[j].conditions, E)}}
    \cup {<<trs[k].to, c[2] + 1>> :
            k \in {j \in 1..Len(trs) : c[2] < Len(w) /\ Includes(trs[j].conditions, Str(w[c[2] + 1]))}}

RECURSIVE RefClosure(_, _, _)
RefClosure(m, w, S) ==
    LET S2 == S \cup UNION {RefMoves(m, w, c) : c \in S} IN
    IF S2 = S THEN S ELSE RefClosure(m, w, S2)

RefReachable(m, w) == RefClosure(m, w, {<<m.initial[k], 0>> : k \in 1..Len(m.initial)})

RefAccepts(m, w) == \E c \in RefReachable(m, w) : c[2] = Len(w) /\ m.states[c[1]].final

\* C2: a compiled NFA's eval(w) is true whenever some path that consumes w, with
\* epsilon moves anywhere (also after the last character), ends in a final state;
\* on the branching NFA eval("") and eval("aa") are true.
C2_NFAAcceptsAlongEpsilon ==
    /\ machine.type = "NFA" /\ evalPc = "done" /\ RefAccepts(machine, evalInput)
            => evalResult = "true"
    /\ OnGraph(BranchNFA) /\ machine = MachineOf("NFA", BranchNFA) =>
            /\ Returned(<<>>) => outcome = "true"
            /\ Returned(<<"a", "a">>) => outcome = "true"

\* a DFA in which no condition is epsilon and every state has a transition for
\* every symbol of the alphabet
NoEpsilon(m) ==
    \A s \in 1..Len(m.states) : \A k \in 1..Len(m.states[s].transitions) :
        ~Includes(m.states[s].transitions[k].conditions, E)

Claims(m, s, symbol) ==
    \E k \in 1..Len(m.states[s].transitions) :
        Includes(m.states[s].transitions[k].conditions, symbol)

TotalMachine(m) == \A s \in 1..Len(m.states) : \A symbol \in m.alphabet : Claims(m, s, symbol)

\* the run of a total DFA: the state reached from s on the characters k.. of w
RefDelta(m, s, c) ==
    LET trs == m.states[s].transitions IN
    trs[CHOOSE k \in 1..Len(trs) : Includes(trs[k].conditions, Str(c))].to

RECURSIVE RefRun(_, _, _, _)
RefRun(m, s, w, k) == IF k > Len(w) THEN s ELSE RefRun(m, RefDelta(m, s, w[k]), w, k + 1)

TotalDFA(m) == m.type = "DFA" /\ NoEpsilon(m) /\ TotalMachine(m)

\* C3: on a total, epsilon-free DFA eval(w) returns, and its result is true
\* exactly when the run of the DFA from the initial state on w ends in a final state.
C3_TotalDFAEval ==
    /\ [](TotalDFA(machine) /\ evalPc = "done" =>
            (evalResult = "true" <=> machine.states[RefRun(machine, machine.initial[1], evalInput, 1)].final))
    /\ [](TotalDFA(machine) /\ evalPc = "done" => evalResult \in {"true", "false"})
    /\ (TotalDFA(machine) /\ evalPc = "scan") ~> (evalPc = "done")

C3_Witness ==
    /\ TotalDFA(machine)
    /\ evalPc = "done"
    /\ Len(evalInput) = MaxLen
    /\ evalResult = "true"

\* a step of a running eval would make the timeline list longer than the model keeps
EvalOverflow ==
    /\ evalPc = "scan"
    /\ evalI < Len(evalTimelines)
    /\ Len(StepTimeline(evalTimelines, evalI, evalInput, machine.states).timelines) > MaxTimelines

\* C4: eval(w) terminates for every compiled DFA or NFA and every input over
\* its alphabet: a running eval always reaches a verdict.
C4_EvalTerminates == (evalPc = "scan") ~> (evalPc = "done" \/ EvalOverflow)

\* C5: on a machine none of whose conditions is epsilon, eval(w) always returns
\* a verdict, also when a timeline is in a state with no transition for the next
\* character.
C5_EvalTerminatesWithoutEpsilon ==
    (evalPc = "scan" /\ NoEpsilon(machine)) ~> (evalPc = "done" \/ EvalOverflow)

\* the order the specification gives for Auto
ClaimedAutoOrder == <<"Turing Machine", "PDA", "DFA", "NFA">>

\* would compile(as, ...) with the arguments of the call c succeed on the graph
ExplicitCompile(as, c) == CompileStep(as, c.alphabets, c.options, nodes, transitions)

\* C6: compile('Auto') installs the machine of the first type, in the order
\* Turing Machine, PDA, DFA, NFA, whose explicit compile succeeds (so a graph valid
\* as Turing machine and as DFA becomes a Turing machine); when none succeeds it
\* throws the one generic error and the active machine stays as it was.
C6_AutoPriority ==
    /\ [](lastCall.op = "compile" /\ lastCall.as = "Auto" =>
            LET ok == {k \in 1..4 : ExplicitCompile(ClaimedAutoOrder[k], lastCall).err = "ok"} IN
            IF ok = {} THEN outcome = "UnableToCompile"
            ELSE LET first == CHOOSE k \in ok : \A j \in ok : k <= j IN
                 /\ outcome = "ok"
                 /\ machine.type = ClaimedAutoOrder[first]
                 /\ machine = ExplicitCompile(ClaimedAutoOrder[first], lastCall).machine)
    /\ [][lastCall'.op = "compile" /\ lastCall'.as = "Auto" /\ outcome' = "UnableToCompile"
            => machine' = machine]_vars

C6_Witness ==
    /\ lastCall.op = "compile"
    /\ lastCall.as = "Auto"
    /\ machine.type = "Turing Machine"
    /\ ExplicitCompile("DFA", lastCall).err = "ok"

\* C7: eval(w) with some character of w outside the machine's alphabet throws
\* the invalid-input error before any timeline exists, whatever the machine's type.
C7_InputCheckedFirst ==
    (/\ lastCall.op = "eval"
     /\ machine # NoMachine
     /\ \E k \in 1..Len(lastCall.inputString) : Str(lastCall.inputString[k]) \notin machine.alphabet)
    => (outcome = "InvalidInput" /\ EvalIdle)

C7_Witness ==
    /\ lastCall.op = "eval"
    /\ machine.type = "Turing Machine"
    /\ machine.alphabet # {}
    /\ outcome = "InvalidInput"

\* C8: with no machine loaded, simulate, advance and eval throw 'No compiled
\* machine.' and change nothing; endSimulation leaves no machine and empty
\* timelines, input, stack and tape.
C8_NoMachine ==
    /\ [](machine = NoMachine /\ lastCall.op \in {"simulate", "advance", "eval"}
            => outcome = "NoMachine" /\ EvalIdle)
    /\ [][machine = NoMachine /\ lastCall'.op \in {"simulate", "advance", "eval"}
            => UNCHANGED <<graphVars, engineVars, evalVars>>]_vars
    /\ [](lastCall.op = "endSimulation" =>
            /\ machine = NoMachine
            /\ timelines = <<>>
            /\ input = <<>>
            /\ stack = <<>>
            /\ tape = <<>>)

C8_Witness ==
    /\ machine = NoMachine
    /\ nodeMap # <<>>
    /\ lastCall.op = "simulate"
    /\ lastCall.inputString # <<>>
    /\ outcome = "NoMachine"

\* the start nodes' positions in the node list, in node order
RECURSIVE StartPositions(_, _)
StartPositions(ns, k) ==
    IF k > Len(ns) THEN <<>>
    ELSE (IF ns[k].start THEN <<k>> ELSE <<>>) \o StartPositions(ns, k + 1)

\* C9: resetSimulation empties timelines, input, stack and tape and keeps the
\* machine; simulate(w) then, as always, leaves one timeline <<initial, 0>> for a
\* DFA / Turing machine or one per start node in node order for an NFA / PDA, an
\* empty stack, w as the input (no tape) for the other types and w as the tape
\* (no input) for a Turing machine.
C9_ResetThenSimulate ==
    /\ [](lastCall.op = "resetSimulation" =>
            timelines = <<>> /\ input = <<>> /\ stack = <<>> /\ tape = <<>>)
    /\ [][lastCall'.op = "resetSimulation" => machine' = machine]_vars
    /\ [](lastCall.op = "simulate" /\ machine # NoMachine =>
            LET starts == StartPositions(nodes, 1)
                w == lastCall.inputString
            IN  /\ machine.type \in {"DFA", "Turing Machine"} =>
                    timelines = <<<<starts[Len(starts)], 0>>>>
                /\ machine.type \in {"NFA", "PDA"} =>
                    timelines = [k \in 1..Len(starts) |-> <<starts[k], 0>>]
                /\ stack = <<>>
                /\ machine.type # "Turing Machine" => input = w /\ tape = <<>>
                /\ machine.type = "Turing Machine" => tape = w /\ input = <<>>)

C9_Witness ==
    /\ lastCall.op = "simulate"
    /\ lastCall.inputString # <<>>
    /\ machine.type = "NFA"
    /\ Len(timelines) = 2
    /\ input = lastCall.inputString

\* C10: a call of eval, from its start to its return, changes none of the
\* engine's machine, timelines, input, stack and tape; it starts from the
\* machine's initial states whatever the simulation is doing, so that on a total
\* DFA its verdict is the run's verdict in every simulation state.
C10_EvalIsolated ==
    /\ [][lastCall'.op = "eval" => UNCHANGED <<graphVars, engineVars>>]_vars
    /\ [][evalPc = "idle" /\ evalPc' = "scan" =>
            /\ evalTimelines' = [k \in 1..Len(machine.initial) |-> <<machine.initial[k], 0>>]
            /\ evalI' = 0
            /\ evalInput' = lastCall'.inputString]_vars
    /\ [](TotalDFA(machine) /\ evalPc = "done" =>
            (evalResult = "true" <=> machine.states[RefRun(machine, machine.initial[1], evalInput, 1)].final))

C10_Witness ==
    /\ evalPc = "done"
    /\ evalResult = "true"
    /\ Len(timelines) = 1
    /\ timelines[1][2] = 1
    /\ input # evalInput
    /\ lastCall.op = "eval"

\* C11: the active machine changes only by a compile that succeeds (to the
\* machine it compiled) or by endSimulation (to none); a compile that fails, of
\* an explicit type or of Auto, leaves it as it was, and so do validate,
\* simulate, advance, eval and resetSimulation.
C11_MachineChanges ==
    /\ [][machine' # machine =>
            \/ /\ lastCall'.op = "compile"
               /\ outcome' = "ok"
               /\ machine' # NoMachine
               /\ lastCall'.as # "Auto" => machine'.type = lastCall'.as
            \/ /\ lastCall'.op = "endSimulation"
               /\ machine' = NoMachine]_vars
    /\ [][lastCall'.op = "compile" /\ outcome' # "ok" => machine' = machine]_vars
    /\ [][lastCall'.op \in {"validate", "simulate", "advance", "eval", "resetSimulation"}
            => machine' = machine]_vars

C11_Witness ==
    /\ lastCall.op = "compile"
    /\ lastCall.as = "Auto"
    /\ outcome = "UnableToCompile"
    /\ machine.type = "NFA"

\* the last call validated the graph as the given type, by validate or by compile
Validated(as) == lastCall.op \in {"validate", "compile"} /\ lastCall.as = as

\* the positions of the nodes marked start
StartSet == {k \in 1..Len(nodes) : nodes[k].start}

\* C12: validation as DFA succeeds only with exactly one start node; with none
\* it fails for the missing initial state, with two or more it fails with the
\* error that names the labels of two of the start nodes.
C12_DFAOneStart ==
    Validated("DFA") =>
        /\ outcome = "ok" => Cardinality(StartSet) = 1
        /\ StartSet = {} => outcome = "NoInitial"
        /\ Cardinality(StartSet) >= 2 =>
            /\ outcome = "MultipleInitial"
            /\ \E i \in StartSet, j \in StartSet :
                i # j /\ BothInitial(nodes) = <<nodes[i].label, nodes[j].label>>

C12_Witness ==
    /\ Validated("DFA")
    /\ lastCall.op = "validate"
    /\ Cardinality(StartSet) = 3
    /\ outcome = "MultipleInitial"

\* C13: a graph with no start node validates and compiles as NFA, to a machine
\* with no initial state.
C13_NFAWithoutStart ==
    Validated("NFA") /\ StartSet = {} /\ transitions = <<>> /\ lastCall.alphabets = NoAlphabets =>
        /\ outcome = "ok"
        /\ lastCall.op = "compile" => machine.type = "NFA" /\ machine.initial = <<>>

\* C14: validation as PDA succeeds only with exactly one start node: it fails
\* on a graph with none and on a graph with two or more.
C14_PDAOneStart ==
    Validated("PDA") =>
        /\ StartSet = {} => outcome # "ok"
        /\ Cardinality(StartSet) >= 2 => outcome # "ok"

\* the positions of the final nodes labelled accept, of those labelled reject
\* and of the final nodes with any other label
AcceptSet == {k \in 1..Len(nodes) : nodes[k].end /\ nodes[k].label = "accept"}
RejectSet == {k \in 1..Len(nodes) : nodes[k].end /\ nodes[k].label = "reject"}
OtherFinalSet == {k \in 1..Len(nodes) : nodes[k].end /\ nodes[k].label \notin {"accept", "reject"}}

TMMarked ==
    /\ Cardinality(StartSet) = 1
    /\ Cardinality(AcceptSet) = 1
    /\ Cardinality(RejectSet) = 1
    /\ OtherFinalSet = {}

\* C15: validation as Turing machine succeeds only on a graph with exactly one
\* start node, exactly one final node labelled accept, exactly one labelled
\* reject and no other final node (and does succeed on such a graph without
\* transitions); a compiled Turing machine has that start node as its initial
\* state and <<accept, reject>> as its final list.
C15_TMMarks ==
    /\ Validated("Turing Machine") /\ outcome = "ok" => TMMarked
    /\ Validated("Turing Machine") /\ TMMarked /\ transitions = <<>> => outcome = "ok"
    /\ machine.type = "Turing Machine" =>
        /\ TMMarked
        /\ \E s \in StartSet : machine.initial = <<s>>
        /\ \E a \in AcceptSet, r \in RejectSet : machine.final = <<a, r>>

C15_Witness ==
    /\ machine.type = "Turing Machine"
    /\ lastCall.as = "Auto"
    /\ Len(nodes) = 3
    /\ machine.final = <<3, 1>>
    /\ machine.initial = <<2>>

\* the claims of a node: <<t, c>> when condition c of transition t leaves it
ClaimsOf(id) ==
    UNION {{<<t, c>> : c \in 1..Len(transitions[t].conditions)} :
            t \in {u \in 1..Len(transitions) : transitions[u].from = id}}

\* the node claims some symbol twice, in two transitions or twice in one
DuplicateAt(id) ==
    \E p \in ClaimsOf(id), q \in ClaimsOf(id) :
        p # q /\ transitions[p[1]].conditions[p[2]] = transitions[q[1]].conditions[q[2]]

HasDuplicate == \E k \in 1..Len(nodes) : DuplicateAt(nodes[k].id)

\* the checks validate makes before the coverage loop pass
WellStartedFA ==
    /\ Cardinality(StartSet) = 1
    /\ \A t \in 1..Len(transitions) : \A c \in 1..Len(transitions[t].conditions) :
            Len(transitions[t].conditions[c]) = 1

ConditionSet ==
    UNION {Range(transitions[t].conditions) : t \in 1..Len(transitions)}

\* the alphabet the last call validated against: the one supplied, or the
\* union of the conditions
AlphabetInForce ==
    IF lastCall.alphabets.alphabet # {}
    THEN UNION lastCall.alphabets.alphabet
    ELSE ConditionSet

\* C17: a graph that validates as DFA is total: every node, also one without
\* any outgoing transition, claims every symbol of the alphabet.
C17_ValidDFATotal ==
    Validated("DFA") /\ outcome = "ok" =>
        \A k \in 1..Len(nodes) : \A symbol \in AlphabetInForce :
            \E p \in ClaimsOf(nodes[k].id) : transitions[p[1]].conditions[p[2]] = symbol

\* C18: a graph one of whose conditions is epsilon fails validation as DFA,
\* with a supplied alphabet and with an inferred one.
C18_NoEpsilonInDFA ==
    Validated("DFA") /\ E \in ConditionSet => outcome # "ok"

\* the graph q0 (start), accept, reject with the one condition c on q0 -> accept
TypedGraphOf(c) == Graph(BareTM.nodes, <<Transition(1, 2, <<c>>)>>)

\* C19: the PDA condition "a b P c" validates and compiles to the typed
\* condition (a, b, Push, c), "a b p c" to (a, b, Pop, c), and "a b X c" fails
\* validation.
C19_EditorFormParses ==
    Validated("PDA") /\ lastCall.alphabets = NoAlphabets =>
        /\ OnGraph(TypedGraphOf(PDAString("a", "b", <<"X">>, "c"))) => outcome # "ok"
        /\ \A act \in {"P", "p"} :
            OnGraph(TypedGraphOf(PDAString("a", "b", <<act>>, "c"))) =>
                /\ outcome = "ok"
                /\ lastCall.op = "compile" =>
                    machine.states[1].transitions[1].conditions[1] =
                        [symbol |-> A, readStackSymbol |-> B,
                         action |-> IF act = "P" THEN PUSH ELSE POP,
                         actionStackSymbol |-> Str("c")]

\* the k-th space-separated field of every condition of the graph
FieldSet(k) == {Field(Split(c), k) : c \in ConditionSet}

\* C20: with an explicit alphabet, validation fails when a condition uses a
\* symbol outside it: the input alphabet for the DFA / NFA symbol (epsilon apart
\* for an NFA), the PDA symbol and the read symbol of a Turing machine, the
\* stack alphabet for the two stack symbols of a PDA, the tape alphabet for the
\* read and write symbols of a Turing machine.
C20_ExplicitAlphabets ==
    LET alphabet == lastCall.alphabets.alphabet
        stackAlphabet == lastCall.alphabets.stackAlphabet
        tapeAlphabet == lastCall.alphabets.tapeAlphabet
    IN  /\ Validated("DFA") /\ alphabet # {} /\ ~(ConditionSet \subseteq UNION alphabet)
                => outcome # "ok"
        /\ Validated("NFA") /\ alphabet # {} /\ ~(ConditionSet \ {E} \subseteq UNION alphabet)
                => outcome # "ok"
        /\ Validated("PDA") /\ alphabet # {} /\ ~(FieldSet(1) \subseteq UNION alphabet)
                => outcome # "ok"
        /\ Validated("PDA") /\ stackAlphabet # {}
                /\ ~(FieldSet(2) \cup FieldSet(4) \subseteq UNION stackAlphabet)
                => outcome # "ok"
        /\ Validated("Turing Machine") /\ tapeAlphabet # {}
                /\ ~(FieldSet(1) \cup FieldSet(2) \subseteq UNION tapeAlphabet)
                => outcome # "ok"
        /\ Validated("Turing Machine") /\ alphabet # {} /\ ~(FieldSet(1) \subseteq UNION alphabet)
                => outcome # "ok"

\* C21: when validate(type, alphabets, options) succeeds, the compile step of
\* the same type with the same alphabets on the same graph succeeds too.
C21_CompileAfterValidate ==
    /\ lastCall.op = "compile"
    /\ lastCall.as \in ExplicitTypes
    /\ Validate(lastCall.as, lastCall.alphabets, lastCall.options, nodes, transitions) = "ok"
    => outcome = "ok"

\* the symbols "of the alphabet" a typed condition claims: the condition itself
\* for a DFA / NFA, the symbol of a PDA condition, the read symbol of a Turing
\* machine condition
ClaimedSymbol(as, c) == IF as \in {"DFA", "NFA"} THEN c ELSE Field(Split(c), 1)

\* the node claims, as the given type, some symbol twice
DuplicateAs(as, id) ==
    \E p \in ClaimsOf(id), q \in ClaimsOf(id) :
        /\ p # q
        /\ ClaimedSymbol(as, transitions[p[1]].conditions[p[2]])
                = ClaimedSymbol(as, transitions[q[1]].conditions[q[2]])

\* the node claims, as the given type, every symbol of the set
CoversAs(as, id, symbols) ==
    \A symbol \in symbols :
        \E p \in ClaimsOf(id) : ClaimedSymbol(as, transitions[p[1]].conditions[p[2]]) = symbol

\* the symbols the coverage of the given type ranges over, when none is supplied
InferredSymbols(as) ==
    IF as = "Turing Machine"
    THEN {Field(Split(c), 1) : c \in ConditionSet} \cup {Field(Split(c), 2) : c \in ConditionSet}
    ELSE {ClaimedSymbol(as, c) : c \in ConditionSet}

\* C22: with requireAllTransitions = true, validation as NFA, as PDA and as
\* Turing machine fails when a node claims the same alphabet symbol twice and
\* fails when some node of the graph does not claim every alphabet symbol.
C22_RequireAllTransitions ==
    \A as \in {"NFA", "PDA", "Turing Machine"} :
        (/\ Validated(as)
         /\ lastCall.options.requireAllTransitions
         /\ lastCall.alphabets = NoAlphabets
         /\ outcome = "ok")
        => \A k \in 1..Len(nodes) :
                /\ ~DuplicateAs(as, nodes[k].id)
                /\ CoversAs(as, nodes[k].id, InferredSymbols(as))

\* the result of validating the graph as a DFA with the last call's arguments
AsDFA == Validate("DFA", lastCall.alphabets, lastCall.options, nodes, transitions)

\* C23: a graph with at least one start node and one-character conditions that
\* fails DFA validation only for missing or duplicate symbol coverage validates
\* as NFA with requireAllTransitions = false and no explicit alphabet.
C23_CoverageOptInForNFA ==
    (/\ Validated("NFA")
     /\ lastCall.alphabets = NoAlphabets
     /\ ~lastCall.options.requireAllTransitions
     /\ StartSet # {}
     /\ \A c \in ConditionSet : Len(c) = 1
     /\ AsDFA \in {"MissingTransitions", "DuplicateTransition"})
    => outcome = "ok"

C23_Witness ==
    /\ Validated("NFA")
    /\ lastCall.alphabets = NoAlphabets
    /\ ~lastCall.options.requireAllTransitions
    /\ HasDuplicate
    /\ AsDFA = "DuplicateTransition"
    /\ outcome = "ok"

\* the positions of the symbol fields in a condition of the given type, split
\* at its spaces (a DFA / NFA condition is its own single symbol field)
SymbolFields(as) ==
    CASE as = "PDA" -> {1, 2, 4}
      [] as = "Turing Machine" -> {1, 2}
      [] OTHER -> {1}

\* the condition has a symbol field that is not one character long
BadField(as, c) ==
    IF as \in {"DFA", "NFA"} THEN Len(c) # 1
    ELSE \E k \in SymbolFields(as) : k <= Len(Split(c)) /\ Len(Split(c)[k]) # 1

\* the checks validate makes on the nodes before it looks at the conditions
StartChecksPass(as) ==
    CASE as = "DFA" -> Cardinality(StartSet) = 1
      [] as = "Turing Machine" -> TMMarked
      [] OTHER -> StartSet # {}

\* the condition the loop over the transitions reads first
FirstCondition == AllConditions(transitions)[1]

\* the format pattern of the typed conditions (none for a DFA / NFA)
MatchesFormat(as, c) ==
    CASE as = "PDA" -> MatchesPDA(c)
      [] as = "Turing Machine" -> MatchesTM(c)
      [] OTHER -> TRUE

RoleSymbols(type) ==
    CASE type \in {"DFA", "NFA"} ->
            [alphabet |-> ConditionSet, stackAlphabet |-> {}, tapeAlphabet |-> {}]
      [] type = "PDA" ->
            [alphabet |-> FieldSet(1), stackAlphabet |-> FieldSet(2) \cup FieldSet(4),
             tapeAlphabet |-> {}]
      [] type = "Turing Machine" ->
            [alphabet |-> FieldSet(1), stackAlphabet |-> {},
             tapeAlphabet |-> FieldSet(1) \cup FieldSet(2)]

\* the alphabets of a machine
AlphabetsOf(m) ==
    [alphabet |-> m.alphabet, stackAlphabet |-> m.stackAlphabet, tapeAlphabet |-> m.tapeAlphabet]

\* the last call was a successful compile with no alphabet supplied
CompiledOpen == lastCall.op = "compile" /\ lastCall.alphabets = NoAlphabets /\ outcome = "ok"

\* C25: when no explicit alphabet is supplied, each alphabet of the compiled
\* machine is exactly the set of symbols the graph's conditions use in that
\* role, and compiling the unchanged graph again yields equal alphabets.
C25_InferredAlphabets ==
    /\ [](CompiledOpen => AlphabetsOf(machine) = RoleSymbols(machine.type))
    /\ [][CompiledOpen /\ CompiledOpen' /\ lastCall'.as = lastCall.as /\ UNCHANGED graphVars
            => AlphabetsOf(machine') = AlphabetsOf(machine)]_vars

C25_Witness ==
    /\ CompiledOpen
    /\ machine.type = "PDA"
    /\ Cardinality(machine.stackAlphabet) >= 2
    /\ machine.stackAlphabet = FieldSet(2) \cup FieldSet(4)

\* a call made with the active machine's type and alphabets, right after the
\* compile with no alphabet that built the machine
RoundTripStep ==
    /\ AfterCompileOpen
    /\ lastCall'.op \in {"validate", "compile"}
    /\ lastCall'.as = machine.type
    /\ lastCall'.alphabets = MachineAlphabets

\* C26: if a graph compiles as type T with no explicit alphabets, validating
\* and compiling it as T with the compiled machine's alphabets as the explicit
\* ones succeeds and yields the same alphabets (DFA, NFA with epsilon
\* conditions included, PDA, Turing machine).
C26_AlphabetRoundTrip ==
    [][RoundTripStep =>
            /\ outcome' = "ok"
            /\ AlphabetsOf(machine') = AlphabetsOf(machine)
            /\ machine'.type = machine.type]_vars

C26_Witness ==
    /\ lastCall.op = "compile"
    /\ lastCall.as = "NFA"
    /\ lastCall.alphabets.alphabet = {machine.alphabet}
    /\ E \in machine.alphabet
    /\ E \in ConditionSet
    /\ outcome = "ok"

\* an advance() call on a DFA / NFA whose first timeline has input remaining
AdvanceWithInput ==
    /\ lastCall'.op = "advance"
    /\ machine # NoMachine
    /\ machine.type \in {"DFA", "NFA"}
    /\ timelines # <<>>
    /\ ~PastEnd(input, timelines[1][2])

\* C27: a branch split loses no branch: after the step of a timeline with input
\* remaining, every epsilon transition of its state has left the live timeline
\* (target, same cursor) and every transition on the next character the live
\* timeline (target, cursor + 1), whatever the order of the transitions.
C27_BranchSplitKeepsAll ==
    [][AdvanceWithInput =>
            LET s == timelines[1][1]
                idx == timelines[1][2]
                trs == simStates[s].transitions
            IN  \A k \in 1..Len(trs) :
                    /\ Includes(trs[k].conditions, Str(EPSILON))
                            => <<trs[k].to, idx>> \in Range(timelines')
                    /\ Includes(trs[k].conditions, Str(input[idx + 1]))
                            => <<trs[k].to, idx + 1>> \in Range(timelines')]_vars

\* the number of advance() calls, and of iterations of _faEval's for loop, a
\* run is followed for
MaxAdvances == (MaxLen + 1) * (MaxNodes + 1) + MaxTimelines
MaxIterations == MaxAdvances * (MaxTimelines + 1)

\* simulate(str) followed by advance() calls: the first signal, or "none" when
\* the calls stop changing the timelines or MaxAdvances calls have not signalled
RECURSIVE SimulationRun(_, _, _, _)
SimulationRun(tls, str, states, calls) ==
    IF calls = 0 THEN "none"
    ELSE LET r == AdvanceFrom(0, Len(tls), tls, str, states) IN
         IF r.signal # "ok" THEN r.signal
         ELSE IF r.timelines = tls THEN "none"
         ELSE SimulationRun(r.timelines, str, states, calls - 1)

SimulationVerdict(m, str) == SimulationRun(InitialTimelines(m), str, m.states, MaxAdvances)

\* _faEval(str): its result, or "none" when a scan of the for loop has left the
\* timelines as they were when it began (scan0) or MaxIterations iterations of
\* the loop have not returned
RECURSIVE FaEvalRun(_, _, _, _, _, _)
FaEvalRun(tls, i, scan0, str, states, iterations) ==
    IF iterations = 0 THEN "none"
    ELSE IF i < Len(tls)
    THEN LET r == StepTimeline(tls, i, str, states) IN
         IF r.signal = "Accept" THEN "true"
         ELSE IF r.signal = "Reject" THEN "false"
         ELSE FaEvalRun(r.timelines, i + 1, scan0, str, states, iterations - 1)
    ELSE IF tls = scan0 THEN "none"
    ELSE FaEvalRun(tls, 0, tls, str, states, iterations - 1)

FaEvalVerdict(m, str) ==
    FaEvalRun(InitialTimelines(m), 0, InitialTimelines(m), str, m.states, MaxIterations)

\* the signal that stands for a result of eval
SignalOf(result) == IF result = "true" THEN "Accept" ELSE "Reject"

\* advance() has just signalled in a simulation of the active DFA / NFA on an
\* input over its alphabet
SimulationSignalled ==
    /\ lastCall.op = "advance"
    /\ outcome \in {"Accept", "Reject"}
    /\ machine # NoMachine
    /\ machine.type \in {"DFA", "NFA"}
    /\ simStates = machine.states
    /\ ValidInput(machine, input)

\* C28: for every compiled DFA or NFA and every input w over its alphabet,
\* eval(w) returns true exactly when simulate(w) followed by advance() calls
\* signals Accept, and false exactly when they signal Reject.
C28_EvalAgreesWithSimulation ==
    /\ (evalPc = "done" /\ machine.type \in {"DFA", "NFA"})
            => SimulationVerdict(machine, evalInput) = SignalOf(evalResult)
    /\ SimulationSignalled => outcome = SignalOf(FaEvalVerdict(machine, input))

C28_Witness ==
    /\ evalPc = "done"
    /\ machine.type = "NFA"
    /\ Len(evalTimelines) >= 2
    /\ Len(evalInput) >= 1
    /\ evalResult = "true"
    /\ SimulationVerdict(machine, evalInput) = "Accept"

\* what processing the timeline tl once leaves of it: nothing when its cursor
\* is past the end of the input (it is dropped), else the timeline after the
\* transition loop followed by the timelines the loop appended
ProcessedOnce(tl) ==
    IF PastEnd(input, tl[2]) THEN <<>>
    ELSE MatchFrom(simStates[tl[1]].transitions, 1, input[tl[2] + 1], tl[2], 0, <<tl>>, FALSE)

\* the timelines one synchronous step over the live timelines leaves
SynchronousStep == Flatten([k \in 1..Len(timelines) |-> ProcessedOnce(timelines[k])])

\* C29: in an advance() call on a DFA / NFA that ends without Accept or Reject,
\* every timeline live at the start of the call is processed exactly once
\* (stepped, or dropped at end of input) and the timelines appended during the
\* call are not processed in it.
C29_AdvanceIsSynchronous ==
    [][(/\ lastCall'.op = "advance"
        /\ machine # NoMachine
        /\ machine.type \in {"DFA", "NFA"}
        /\ outcome' = "ok")
       => /\ Len(timelines') = Len(SynchronousStep)
          /\ Range(timelines') = Range(SynchronousStep)]_vars

\* the timeline is at the end of the input / in a final state
AtEnd(tl) == PastEnd(input, tl[2])
InFinal(tl) == simStates[tl[1]].final

\* C30: end-of-input rule of advance for a DFA / NFA.  The first timeline of the
\* list is always processed: when its cursor is past the end of the input,
\* advance signals Accept if its state is final, else Reject if it is the only
\* timeline, else removes it and leaves the others (the one behind it moves into
\* its slot).  Any Accept comes from a finished final timeline, any Reject from
\* a single finished non-final one, and neither changes the machine.
C30_EndOfInputRule ==
    [][(/\ lastCall'.op = "advance"
        /\ machine # NoMachine
        /\ machine.type \in {"DFA", "NFA"})
       => /\ (timelines # <<>> /\ AtEnd(timelines[1])) =>
                /\ InFinal(timelines[1]) => outcome' = "Accept" /\ timelines' = timelines
                /\ ~InFinal(timelines[1]) /\ Len(timelines) = 1
                        => outcome' = "Reject" /\ timelines' = timelines
                /\ ~InFinal(timelines[1]) /\ Len(timelines) > 1
                        => /\ timelines'[1] = timelines[2]
                           /\ Len(timelines) = 2 => outcome' = "ok" /\ timelines' = Tail(timelines)
          /\ outcome' = "Accept" =>
                \E k \in 1..Len(timelines') : AtEnd(timelines'[k]) /\ InFinal(timelines'[k])
          /\ outcome' = "Reject" =>
                /\ Len(timelines') = 1
                /\ AtEnd(timelines'[1]) /\ ~InFinal(timelines'[1])
          /\ outcome' \in {"Accept", "Reject"} => machine' = machine]_vars

C30_Witness ==
    /\ lastCall.op = "advance"
    /\ outcome = "ok"
    /\ machine.type = "NFA"
    /\ Len(machine.initial) = 2
    /\ input = <<>>
    /\ Len(timelines) = 1

\* the last call was a successful compile
Compiled == lastCall.op = "compile" /\ outcome = "ok"

\* one state per node, with the node's label and flags
StatesMirrorNodes ==
    /\ Len(machine.states) = Len(nodes)
    /\ \A i \in 1..Len(nodes) :
            /\ machine.states[i].label = nodes[i].label
            /\ machine.states[i].initial = nodes[i].start
            /\ machine.states[i].final = nodes[i].end

\* every transition of the graph is once in the list of its source node's
\* state, in the order of the graph, with its target resolved
TransitionsMirrorGraph ==
    /\ \A k \in 1..Len(transitions) : StateOf(nodes, transitions[k].from) # 0
    /\ \A i \in 1..Len(nodes) :
            LET out == Outgoing(transitions, nodes[i].id)
                trs == machine.states[i].transitions
            IN  /\ Len(trs) = Len(out)
                /\ \A j \in 1..Len(out) :
                        /\ trs[j].from = i
                        /\ trs[j].to = StateOf(nodes, out[j].to)
                        /\ trs[j].conditions =
                                [c \in 1..Len(out[j].conditions) |->
                                    CompiledCondition(machine.type, out[j].conditions[c])]

\* C31 (as stated): the compiled machine has one state per node with label and
\* flags copied, every transition once in its source state's list with its
\* target resolved, the states' transitions and the initial and final lists
\* in the insertion order of the graph, and the graph is not modified.
C31_CompilationMirrorsGraph ==
    /\ [](Compiled =>
            /\ StatesMirrorNodes
            /\ TransitionsMirrorGraph
            /\ machine.initial = StartIndices(nodes)
            /\ machine.final = EndIndices(nodes))
    /\ [][lastCall'.op = "compile" => UNCHANGED graphVars]_vars

\* C31 (amended): as above, except that the final list of a Turing machine is
\* the pair (accept state, reject state) whatever their order in the graph.
C31_CompilationMirrorsGraphButTMFinal ==
    /\ [](Compiled =>
            /\ StatesMirrorNodes
            /\ TransitionsMirrorGraph
            /\ machine.initial = StartIndices(nodes)
            /\ machine.final =
                    IF machine.type = "Turing Machine"
                    THEN <<Last(AcceptIndices(nodes)), Last(RejectIndices(nodes))>>
                    ELSE EndIndices(nodes))
    /\ [][lastCall'.op = "compile" => nodes' = nodes /\ transitions' = transitions]_vars

C31_Witness ==
    /\ Compiled
    /\ machine.type = "NFA"
    /\ Len(machine.states[1].transitions) = 2
    /\ machine.states[1].transitions[1].conditions # machine.states[1].transitions[2].conditions
    /\ machine.states[1].transitions[1].conditions = transitions[1].conditions

\* the active machine is a PDA or a Turing machine
StackOrTape == machine.type \in {"PDA", "Turing Machine"}

\* C32: for a compiled PDA or Turing machine eval returns false for every
\* input over the machine's alphabet, and advance() changes no execution state
\* and signals neither Accept nor Reject.
C32_NoRunForPDAAndTM ==
    /\ []((/\ lastCall.op = "eval"
           /\ StackOrTape
           /\ ValidInput(machine, lastCall.inputString)
           /\ evalPc = "idle")
          => outcome = "false")
    /\ [][lastCall'.op = "advance" /\ StackOrTape
            => /\ outcome' = "ok"
               /\ UNCHANGED <<machine, nodeMap, timelines, simStates, input, stack, tape>>]_vars

C32_Witness ==
    /\ lastCall.op = "eval"
    /\ machine.type = "PDA"
    /\ Len(lastCall.inputString) >= 1
    /\ evalPc = "idle"
    /\ outcome = "false"

\* the string does not contain the epsilon character
EpsilonFree(str) == \A k \in 1..Len(str) : str[k] # EPSILON

\* every timeline of the list is a configuration the machine reaches on str
AllReachable(tls, str) ==
    \A k \in 1..Len(tls) :
        /\ tls[k] \in RefReachable(machine, str)
        /\ 0 <= tls[k][2] /\ tls[k][2] <= Len(str)

\* the timelines of the simulation belong to the active DFA / NFA
SimulatingActive ==
    /\ machine.type \in {"DFA", "NFA"}
    /\ simStates = machine.states

\* C33: on an input w without the epsilon character, every timeline (state,
\* cursor) that exists during eval(w) or simulate(w) / advance is reachable in
\* the machine from an initial state by a path consuming the first `cursor`
\* characters of w, so eval returns true and advance signals Accept only if
\* the machine has an accepting run on w.
C33_AcceptanceIsSound ==
    /\ (Evaluating /\ machine.type \in {"DFA", "NFA"} /\ EpsilonFree(evalInput)) =>
            /\ AllReachable(evalTimelines, evalInput)
            /\ evalResult = "true" => RefAccepts(machine, evalInput)
    /\ (SimulatingActive /\ EpsilonFree(input)) =>
            /\ AllReachable(timelines, input)
            /\ (lastCall.op = "advance" /\ outcome = "Accept") => RefAccepts(machine, input)

C33_Witness ==
    /\ evalPc = "done"
    /\ machine.type = "NFA"
    /\ Len(evalInput) = MaxLen
    /\ Len(evalTimelines) >= 2
    /\ evalResult = "true"
    /\ RefAccepts(machine, evalInput)

\* C34: a machine compiled as DFA runs deterministically: the timeline list
\* holds exactly one timeline after simulate(w), every advance() call on one
\* timeline leaves one timeline, and throughout eval(w) the list holds one.
C34_DFAHasOneTimeline ==
    /\ []((lastCall.op = "simulate" /\ machine.type = "DFA") => Len(timelines) = 1)
    /\ []((Evaluating /\ machine.type = "DFA") => Len(evalTimelines) = 1)
    /\ [][(lastCall'.op = "advance" /\ machine.type = "DFA" /\ Len(timelines) = 1)
            => Len(timelines') = 1]_vars

\* some timeline of the simulation has finished in a final state / the one
\* timeline of the simulation has finished in a state that is not final
AcceptingPresent == \E k \in 1..Len(timelines) : AtEnd(timelines[k]) /\ InFinal(timelines[k])
RejectingAlone ==
    Len(timelines) = 1 /\ AtEnd(timelines[1]) /\ ~InFinal(timelines[1])

\* an advance() call on a DFA / NFA
AdvanceOnFA ==
    /\ lastCall'.op = "advance"
    /\ machine # NoMachine
    /\ machine.type \in {"DFA", "NFA"}

\* a call other than simulate, resetSimulation, endSimulation and compile
WithinSimulation ==
    lastCall'.op \notin {"simulate", "resetSimulation", "endSimulation", "compile"}

\* C35: verdicts are stable within one simulation.  An Accept leaves a finished
\* final timeline in the list and a Reject a single finished non-final one;
\* the calls that do not start or end a simulation keep both conditions, and
\* under the first no advance() signals Reject, under the second every
\* advance() signals Reject.
C35_VerdictsAreStable ==
    /\ []((lastCall.op = "advance" /\ outcome = "Accept") => AcceptingPresent)
    /\ []((lastCall.op = "advance" /\ outcome = "Reject") => RejectingAlone)
    /\ [][(AcceptingPresent /\ WithinSimulation) => AcceptingPresent']_vars
    /\ [][(RejectingAlone /\ WithinSimulation) => RejectingAlone']_vars
    /\ [][(AcceptingPresent /\ AdvanceOnFA) => outcome' # "Reject"]_vars
    /\ [][(RejectingAlone /\ AdvanceOnFA) => outcome' = "Reject"]_vars

C35_Witness ==
    /\ lastCall.op = "advance"
    /\ outcome = "Accept"
    /\ Len(timelines) >= 2
    /\ ~AtEnd(timelines[2])

\* C36: the epsilon symbol is never a member of a compiled NFA's inferred
\* input alphabet, so eval on such an NFA rejects every input that contains
\* the character epsilon as out of the alphabet instead of running it.
C36_EpsilonNotInAlphabet ==
    /\ (CompiledOpen /\ machine.type = "NFA") => Str(EPSILON) \notin machine.alphabet
    /\ (/\ lastCall.op = "eval"
        /\ machine.type = "NFA"
        /\ ~EpsilonFree(lastCall.inputString))
       => (outcome = "InvalidInput" /\ EvalIdle)

\* C40: whenever a machine is active, the state-to-node map holds exactly that
\* machine's states, each mapped to the node it was compiled from, after any
\* sequence of compile (successful or failed), exportJFF, simulate, advance,
\* resetSimulation and endSimulation.
C40_NodeMapMatchesMachine ==
    machine # NoMachine => nodeMap = NodeMapOf(nodes)

\* the graph (ns2, ts2) has the nodes and transitions of (ns1, ts1) in the
\* same insertion order
SameGraph(ns1, ts1, ns2, ts2) ==
    /\ Len(ns2) = Len(ns1)
    /\ \A k \in 1..Len(ns1) :
        /\ ns2[k].label = ns1[k].label
        /\ ns2[k].start = ns1[k].start
        /\ ns2[k].end = ns1[k].end
    /\ Len(ts2) = Len(ts1)
    /\ \A k \in 1..Len(ts1) :
        /\ ts2[k].conditions = ts1[k].conditions
        /\ StateOf(ns2, ts2[k].from) = StateOf(ns1, ts1[k].from)
        /\ StateOf(ns2, ts2[k].to) = StateOf(ns1, ts1[k].to)

\* compiled as a DFA / NFA, the two graphs give the same outcome and, when
\* they compile, the same verdict of eval on every input
SameVerdicts(ns1, ts1, ns2, ts2) ==
    \A as \in {"DFA", "NFA"} :
        LET r1 == CompileResult(as, NoAlphabets, NoOptions, ns1, ts1)
            r2 == CompileResult(as, NoAlphabets, NoOptions, ns2, ts2)
        IN  /\ r2.err = r1.err
            /\ r1.err = "ok" =>
                /\ Len(r2.machine.initial) = Len(r1.machine.initial)
                /\ \A w \in WordsUpTo(MaxLen) :
                    FaEvalVerdict(r2.machine, w) = FaEvalVerdict(r1.machine, w)

\* C38: loading the output of export() into an empty engine gives a graph with
\* the same nodes and transitions in the same insertion order, and compiling it
\* gives a machine on which eval returns the same verdict for every input.
C38_ReloadPreservesMachine ==
    [][lastCall'.op = "load" =>
        /\ outcome' = "ok"
        /\ SameGraph(nodes, transitions, nodes', transitions')
        /\ SameVerdicts(nodes, transitions, nodes', transitions')]_vars

\* every transition of the graph has both endpoints among the graph's nodes
EndpointsPresent ==
    \A k \in 1..Len(transitions) :
        /\ \E n \in 1..Len(nodes) : nodes[n].id = transitions[k].from
        /\ \E n \in 1..Len(nodes) : nodes[n].id = transitions[k].to

\* the compiled states hold every transition of the graph, each with a
\* compiled state as its target
EndpointsCompiled ==
    LET states == CompiledStates(nodes, transitions, "NFA") IN
    /\ ~DanglingFrom(nodes, transitions)
    /\ \A i \in 1..Len(states) : \A k \in 1..Len(states[i].transitions) :
        states[i].transitions[k].to \in 1..Len(states)

\* C39: after any sequence of adding nodes, adding transitions between nodes
\* of the graph, load, reversing a transition and remove, every transition has
\* both endpoints among the graph's nodes (removing a node removes every
\* transition that enters or leaves it), so compile finds a compiled state
\* for each endpoint.
C39_ReferentialIntegrity ==
    /\ EndpointsPresent
    /\ EndpointsCompiled

\* a node has been deleted and the graph still has a node and a transition
C39_Witness ==
    /\ lastCall.op = "deleteNode"
    /\ nodes # <<>>
    /\ transitions # <<>>

\* C37: fast-forward does not outlive its simulation: while no simulation is
\* running (before Start, after Reset, after Stop) no fastForward callback is
\* waiting to advance the engine, so a simulation started later is advanced
\* only by Step or by a Fast Forward of its own, and simState stays null.
C37_FastForwardEndsWithSimulation ==
    ~simulating => (ffPending = 0 /\ simState = "null")

=============================================================================
